---- MODULE Spec2Model ----
(***************************************************************************)
(* Word search and ranking engine of duech-online-app (searchWords in      *)
(* src/lib/pdf-utils.ts), the role utilities (src/lib/role-utils.ts) and   *)
(* the user management actions and /api/users/[id] handlers.               *)
(* Strings are sequences of characters; a                                  *)
(* character is a one-symbol name ("a", " ", "aacute" for U+00E1, "U0301"  *)
(* for the combining acute accent, "iquest" for the inverted question      *)
(* mark).  An optional value is a sequence of length 0 (undefined) or 1.   *)
(***************************************************************************)
EXTENDS Integers, Sequences, FiniteSets, TLC

\* ------------------------------------------------------------------------
\* Bounds of the model
\* ------------------------------------------------------------------------
MaxEntries == 2
MaxPage == 2
MaxPageSize == 2
MaxLemmaLen == 3
MaxQueryLen == 2
MaxAssignees == 1
MaxUsers == 3

\* ------------------------------------------------------------------------
\* Optional values (undefined / defined)
\* ------------------------------------------------------------------------
None == <<>>
Some(v) == <<v>>
IsSome(o) == Len(o) = 1
Val(o) == o[1]

\* ------------------------------------------------------------------------
\* Characters
\* ------------------------------------------------------------------------
LowerLetters ==
  <<"a","b","c","d","e","f","g","h","i","j","k","l","m",
    "n","o","p","q","r","s","t","u","v","w","x","y","z">>
UpperLetters ==
  <<"A","B","C","D","E","F","G","H","I","J","K","L","M",
    "N","O","P","Q","R","S","T","U","V","W","X","Y","Z">>
Digits == <<"0","1","2","3","4","5","6","7","8","9">>

IndexIn(seq, c) == CHOOSE i \in 1..Len(seq) : seq[i] = c
IsIn(seq, c) == \E i \in 1..Len(seq) : seq[i] = c
Range(seq) == { seq[i] : i \in 1..Len(seq) }

\* every character of the model
Chars ==
  Range(LowerLetters) \cup Range(UpperLetters) \cup Range(Digits) \cup
  {" ", "%", "_", "iexcl", "iquest", "aacute", "eacute", "ntilde",
   "Aacute", "Eacute", "Ntilde", "U0301", "U0303", "@", "-", "+"}

\* \s of the regular expressions and of String.prototype.trim
IsSpace(c) == c = " "
\* U+0300..U+036F
IsCombining(c) == c \in {"U0301", "U0303"}
\* [a-z0-9] under the /i flag
AlnumChars == Range(LowerLetters) \cup Range(UpperLetters) \cup Range(Digits)
IsAlnum(c) == c \in AlnumChars

\* String.prototype.toLowerCase, one character
ToLowerOf(c) ==
  IF IsIn(UpperLetters, c) THEN LowerLetters[IndexIn(UpperLetters, c)]
  ELSE IF c = "Aacute" THEN "aacute"
  ELSE IF c = "Eacute" THEN "eacute"
  ELSE IF c = "Ntilde" THEN "ntilde"
  ELSE c
ToLowerTable == [c \in Chars |-> ToLowerOf(c)]
ToLowerChar(c) == ToLowerTable[c]

\* canonical decomposition (NFD) of one character
NFDChar(c) ==
  IF c = "aacute" THEN <<"a", "U0301">>
  ELSE IF c = "eacute" THEN <<"e", "U0301">>
  ELSE IF c = "ntilde" THEN <<"n", "U0303">>
  ELSE IF c = "Aacute" THEN <<"A", "U0301">>
  ELSE IF c = "Eacute" THEN <<"E", "U0301">>
  ELSE IF c = "Ntilde" THEN <<"N", "U0303">>
  ELSE <<c>>

\* Unicode code point, the order of the store's ORDER BY on text
CodePointOf(c) ==
  IF c = " " THEN 32
  ELSE IF c = "%" THEN 37
  ELSE IF c = "+" THEN 43
  ELSE IF c = "-" THEN 45
  ELSE IF c = "@" THEN 64
  ELSE IF IsIn(Digits, c) THEN 47 + IndexIn(Digits, c)
  ELSE IF IsIn(UpperLetters, c) THEN 64 + IndexIn(UpperLetters, c)
  ELSE IF c = "_" THEN 95
  ELSE IF IsIn(LowerLetters, c) THEN 96 + IndexIn(LowerLetters, c)
  ELSE IF c = "iexcl" THEN 161
  ELSE IF c = "iquest" THEN 191
  ELSE IF c = "Aacute" THEN 193
  ELSE IF c = "Eacute" THEN 201
  ELSE IF c = "Ntilde" THEN 209
  ELSE IF c = "aacute" THEN 225
  ELSE IF c = "eacute" THEN 233
  ELSE IF c = "ntilde" THEN 241
  ELSE IF c = "U0301" THEN 769
  ELSE 771
CodePointTable == [c \in Chars |-> CodePointOf(c)]
CodePoint(c) == CodePointTable[c]

\* ------------------------------------------------------------------------
\* Strings
\* ------------------------------------------------------------------------
RECURSIVE MapChars(_, _)
MapChars(F(_), s) ==
  IF s = <<>> THEN <<>> ELSE <<F(Head(s))>> \o MapChars(F, Tail(s))

RECURSIVE FlatMapChars(_, _)
FlatMapChars(F(_), s) ==
  IF s = <<>> THEN <<>> ELSE F(Head(s)) \o FlatMapChars(F, Tail(s))

\* String.prototype.startsWith
StartsWith(s, p) == Len(p) <= Len(s) /\ SubSeq(s, 1, Len(p)) = p

\* String.prototype.includes
Includes(s, p) ==
  \E i \in 0..(Len(s) - Len(p)) : SubSeq(s, i + 1, i + Len(p)) = p

RECURSIVE TrimStart(_)
TrimStart(s) ==
  IF s # <<>> /\ IsSpace(Head(s)) THEN TrimStart(Tail(s)) ELSE s

RECURSIVE TrimEnd(_)
TrimEnd(s) ==
  IF s # <<>> /\ IsSpace(s[Len(s)]) THEN TrimEnd(SubSeq(s, 1, Len(s) - 1)) ELSE s

\* String.prototype.trim
Trim(s) == TrimEnd(TrimStart(s))

\* lemma.split(/\s+/): the pieces between maximal runs of whitespace
RECURSIVE SplitAcc(_, _, _)
SplitAcc(s, cur, inWs) ==
  IF s = <<>> THEN <<cur>>
  ELSE IF IsSpace(Head(s))
       THEN IF inWs THEN SplitAcc(Tail(s), cur, TRUE)
            ELSE <<cur>> \o SplitAcc(Tail(s), <<>>, TRUE)
       ELSE SplitAcc(Tail(s), Append(cur, Head(s)), FALSE)

SplitWhitespace(s) == SplitAcc(s, <<>>, FALSE)

\* the strip without the "+": one leading character only
StripOneLeading(token) ==
  IF token # <<>> /\ ~IsAlnum(Head(token)) THEN Tail(token) ELSE token

\* token.replace(/^[^a-z0-9]+/i, '')
RECURSIVE StripLeading(_)
StripLeading(token) ==
  IF token # <<>> /\ ~IsAlnum(Head(token)) THEN StripLeading(Tail(token)) ELSE token

\* the normalisation with the diacritics removed ahead of the decomposition
normalizeStripFirst(value) ==
  FlatMapChars(NFDChar,
               SelectSeq(MapChars(ToLowerChar, value), LAMBDA c : ~IsCombining(c)))

\* value.toLowerCase().normalize('NFD').replace(/[\u0300-\u036f]/g, '')
normalize(value) ==
  SelectSeq(FlatMapChars(NFDChar, MapChars(ToLowerChar, value)),
            LAMBDA c : ~IsCombining(c))

\* ------------------------------------------------------------------------
\* Match classifier
\* ------------------------------------------------------------------------
\* the buckets with prefix ahead of exact
bucketOrderPrefixFirst == <<"prefix", "exact", "inline", "partial", "filter">>

bucketOrder == <<"exact", "prefix", "inline", "partial", "filter">>

hasInlineMatch(lemma, normalizedQueryForMatch) ==
  LET tokens == MapChars(StripLeading, SplitWhitespace(lemma))
  IN \E i \in 1..Len(tokens) : StartsWith(tokens[i], normalizedQueryForMatch)

\* the classifier with the inline test ahead of the prefix test
MatchTypeInlineFirst(query, hasFullWord, rawLemma) ==
  IF IsSome(query) /\ Val(query) # <<>> /\ hasFullWord
  THEN LET normalizedQueryForMatch == normalize(Val(query))
           lemma == normalize(rawLemma)
       IN IF Len(normalizedQueryForMatch) = 0 THEN "filter"
          ELSE IF lemma = normalizedQueryForMatch THEN "exact"
          ELSE IF hasInlineMatch(lemma, normalizedQueryForMatch) THEN "inline"
          ELSE IF StartsWith(lemma, normalizedQueryForMatch) THEN "prefix"
          ELSE IF Includes(lemma, normalizedQueryForMatch) THEN "partial"
          ELSE "filter"
  ELSE "filter"

\* the body of results.map(...) that computes matchType
MatchType(query, hasFullWord, rawLemma) ==
  IF IsSome(query) /\ Val(query) # <<>> /\ hasFullWord
  THEN LET normalizedQueryForMatch == normalize(Val(query))
           lemma == normalize(rawLemma)
       IN IF Len(normalizedQueryForMatch) = 0 THEN "filter"
          ELSE IF lemma = normalizedQueryForMatch THEN "exact"
          ELSE IF StartsWith(lemma, normalizedQueryForMatch) THEN "prefix"
          ELSE IF hasInlineMatch(lemma, normalizedQueryForMatch) THEN "inline"
          ELSE IF Includes(lemma, normalizedQueryForMatch) THEN "partial"
          ELSE "filter"
  ELSE "filter"

mappedMatch(matchType) ==
  IF matchType = "exact" THEN "exact"
  ELSE IF matchType \in {"partial", "prefix", "inline"} THEN "partial"
  ELSE "filter"

\* ------------------------------------------------------------------------
\* Store-side text functions
\* ------------------------------------------------------------------------
\* unaccent(), one character
UnaccentChar(c) ==
  IF c \in {"aacute", "Aacute"} THEN (IF c = "aacute" THEN "a" ELSE "A")
  ELSE IF c \in {"eacute", "Eacute"} THEN (IF c = "eacute" THEN "e" ELSE "E")
  ELSE IF c \in {"ntilde", "Ntilde"} THEN (IF c = "ntilde" THEN "n" ELSE "N")
  ELSE c

\* unaccent(lower(text))
UnaccentLower(text) == MapChars(UnaccentChar, MapChars(ToLowerChar, text))

\* text LIKE pattern ("%" any run of characters, "_" any one character)
RECURSIVE Like(_, _)
Like(text, pattern) ==
  IF pattern = <<>> THEN text = <<>>
  ELSE IF Head(pattern) = "%"
       THEN Like(text, Tail(pattern)) \/ (text # <<>> /\ Like(Tail(text), pattern))
       ELSE /\ text # <<>>
            /\ (Head(pattern) = "_" \/ Head(text) = Head(pattern))
            /\ Like(Tail(text), Tail(pattern))

\* order of two texts under ORDER BY ... ASC: -1, 0 or 1
RECURSIVE CompareText(_, _)
CompareText(a, b) ==
  IF a = <<>> THEN (IF b = <<>> THEN 0 ELSE -1)
  ELSE IF b = <<>> THEN 1
  ELSE IF CodePoint(Head(a)) < CodePoint(Head(b)) THEN -1
  ELSE IF CodePoint(Head(a)) > CodePoint(Head(b)) THEN 1
  ELSE CompareText(Tail(a), Tail(b))

\* ------------------------------------------------------------------------
\* localeCompare(_, 'es', { sensitivity: 'base' })
\* ------------------------------------------------------------------------
\* primary collation weights of one character: case and accents carry no
\* primary weight, n-tilde is a letter of its own after n, blanks and
\* punctuation sort before digits and letters
PrimaryWeightsOf(c) ==
  IF IsCombining(c) THEN <<>>
  ELSE IF c = " " THEN <<1>>
  ELSE IF c = "_" THEN <<2>>
  ELSE IF c = "iexcl" THEN <<3>>
  ELSE IF c = "iquest" THEN <<4>>
  ELSE IF c = "%" THEN <<5>>
  ELSE IF IsIn(Digits, c) THEN <<10 + IndexIn(Digits, c)>>
  ELSE IF c \in {"ntilde", "Ntilde"} THEN <<101 + 2 * IndexIn(LowerLetters, "n")>>
  ELSE LET base == ToLowerChar(UnaccentChar(c))
       IN <<100 + 2 * IndexIn(LowerLetters, base)>>
PrimaryWeightsTable == [c \in Chars |-> PrimaryWeightsOf(c)]
PrimaryWeights(c) == PrimaryWeightsTable[c]

RECURSIVE CompareWeights(_, _)
CompareWeights(a, b) ==
  IF a = <<>> THEN (IF b = <<>> THEN 0 ELSE -1)
  ELSE IF b = <<>> THEN 1
  ELSE IF Head(a) < Head(b) THEN -1
  ELSE IF Head(a) > Head(b) THEN 1
  ELSE CompareWeights(Tail(a), Tail(b))

localeCompare(lemmaA, lemmaB) ==
  CompareWeights(FlatMapChars(PrimaryWeights, lemmaA), FlatMapChars(PrimaryWeights, lemmaB))

\* ------------------------------------------------------------------------
\* Store: words with their meanings (words.id is the position in the store)
\* ------------------------------------------------------------------------
casa == <<"c","a","s","a">>
Casa == <<"C","a","s","a">>
casapuerta == <<"c","a","s","a","p","u","e","r","t","a">>
miCasaLinda == <<"m","i"," ","c","a","s","a"," ","l","i","n","d","a">>
acasa == <<"a","c","a","s","a">>
miIquestCasa == <<"m","i"," ","iquest","c","a","s","a">>

ala == <<"a","l","a">>
abuelo == <<"a","b","u","e","l","o">>
besa == <<"b","e","s","a">>
abeja == <<"a","b","e","j","a">>
Lat == <<"L","a","t">>

\* the keys of MARKER_COLUMN_MAP, in the order of its declaration
MEANING_MARKER_KEYS ==
  <<"socialValuations", "socialStratumMarkers", "styleMarkers",
    "intentionalityMarkers", "geographicalMarkers", "chronologicalMarkers",
    "frequencyMarkers">>

\* a meaning whose origin, dictionary and marker columns are NULL
Meaning(cat) ==
  [grammarCategory |-> cat, origin |-> None, dictionary |-> None]
    @@ [k \in Range(MEANING_MARKER_KEYS) |-> None]

MeaningOf(cat, origin, dict, style) ==
  [Meaning(cat) EXCEPT !.origin = origin, !.dictionary = dict, !.styleMarkers = style]

\* the words the store can hold, by words.id
Words ==
  << [lemma |-> casa, letter |-> <<"c">>, status |-> "published", assignedTo |-> Some(1),
      meanings |-> <<Meaning("m"), Meaning("f"), Meaning("m"), Meaning("m"), Meaning("m")>>],
     [lemma |-> Casa, letter |-> <<"c">>, status |-> "published", assignedTo |-> None,
      meanings |-> <<Meaning("m")>>],
     [lemma |-> casapuerta, letter |-> <<"c">>, status |-> "imported", assignedTo |-> Some(2),
      meanings |-> <<Meaning("f")>>],
     [lemma |-> miCasaLinda, letter |-> <<"m">>, status |-> "published", assignedTo |-> None,
      meanings |-> <<>>],
     [lemma |-> acasa, letter |-> <<"a">>, status |-> "published", assignedTo |-> Some(1),
      meanings |-> <<Meaning("f"), Meaning("f")>>],
     [lemma |-> miIquestCasa, letter |-> <<"m">>, status |-> "redacted", assignedTo |-> Some(2),
      meanings |-> <<Meaning("m")>>],
     [lemma |-> ala, letter |-> <<"a">>, status |-> "published", assignedTo |-> Some(1),
      meanings |-> <<MeaningOf("f", Some(Lat), Some("duech"), Some("espont"))>>],
     [lemma |-> abuelo, letter |-> <<"a">>, status |-> "published", assignedTo |-> None,
      meanings |-> <<MeaningOf("m", None, Some("duech"), None),
                     MeaningOf("f", Some(Lat), None, Some("espont"))>>],
     [lemma |-> besa, letter |-> <<"b">>, status |-> "published", assignedTo |-> None,
      meanings |-> <<>>],
     [lemma |-> abeja, letter |-> <<"a">>, status |-> "published", assignedTo |-> None,
      meanings |-> <<>>] >>

\* the words of the text-query scenarios and the words of the facet scenarios
LemmaWordIds == 1..6
FacetWordIds == 7..10

\* a store content: the ids of the words in the words table
Stores == { ids \in SUBSET LemmaWordIds : Cardinality(ids) <= MaxEntries }

\* ------------------------------------------------------------------------
\* SearchWordsParams
\* ------------------------------------------------------------------------
QueryPool == { <<>>, casa, <<" ">>, casa \o <<" ">> }

\* letters, origins, dictionaries and every marker filter left undefined
NoFacetParams ==
  [letters |-> None, origins |-> None, dictionaries |-> None]
    @@ [k \in Range(MEANING_MARKER_KEYS) |-> None]

WithNoFacets(S) == { b @@ NoFacetParams : b \in S }

ParamSpace == WithNoFacets(
  [ query : {None} \cup { Some(q) : q \in QueryPool },
    editorMode : {None, Some(FALSE), Some(TRUE)},
    status : {None, Some("imported")},
    categories : {None, Some(<<"m">>)},
    assignedTo : {None},
    page : {None} \cup { Some(n) : n \in 0..MaxPage },
    pageSize : {None} \cup { Some(n) : n \in 0..MaxPageSize } ])

DefaultPage == 1
DefaultPageSize == 25

\* destructuring defaults: page = 1, pageSize = 25
PageOf(p) == IF IsSome(p.page) THEN Val(p.page) ELSE DefaultPage
PageSizeOf(p) == IF IsSome(p.pageSize) THEN Val(p.pageSize) ELSE DefaultPageSize

\* JavaScript truthiness of an optional string / boolean / array
TruthyString(o) == IsSome(o) /\ Val(o) # <<>>
TruthyBool(o) == IsSome(o) /\ Val(o)

\* normalizedQuery after the "if (query)" block: None stands for null
normalizedQuery(p) ==
  IF TruthyString(p.query) /\ Len(Trim(Val(p.query))) > 0
  THEN Some(Trim(Val(p.query)))
  ELSE None

prefixPattern(nq) == nq \o <<"%">>
inlinePattern(nq) == <<"%", " ">> \o nq \o <<"%">>
containsPattern(nq) == <<"%">> \o nq \o <<"%">>

\* ------------------------------------------------------------------------
\* Filter builder: the conditions array
\* ------------------------------------------------------------------------
\* the visibility rule without the published-only default
VisibilityConditionsNoDefault(p) ==
  IF TruthyBool(p.editorMode) /\ IsSome(p.status) /\ Val(p.status) # ""
  THEN << [kind |-> "status", arg |-> <<Val(p.status)>>] >>
  ELSE <<>>

\* the editor branch without the test for the empty string
VisibilityConditionsEmptyStatus(p) ==
  IF ~TruthyBool(p.editorMode)
  THEN << [kind |-> "status", arg |-> <<"published">>] >>
  ELSE IF IsSome(p.status)
       THEN << [kind |-> "status", arg |-> <<Val(p.status)>>] >>
       ELSE <<>>

VisibilityConditions(p) ==
  IF ~TruthyBool(p.editorMode)
  THEN << [kind |-> "status", arg |-> <<"published">>] >>
  ELSE IF IsSome(p.status) /\ Val(p.status) # ""
       THEN << [kind |-> "status", arg |-> <<Val(p.status)>>] >>
       ELSE <<>>

\* the digits at the head of s
RECURSIVE LeadingDigits(_)
LeadingDigits(s) ==
  IF s # <<>> /\ IsIn(Digits, Head(s))
  THEN <<Head(s)>> \o LeadingDigits(Tail(s))
  ELSE <<>>

\* the number written by a run of decimal digits
RECURSIVE DigitsValue(_)
DigitsValue(ds) ==
  IF ds = <<>> THEN 0
  ELSE 10 * DigitsValue(SubSeq(ds, 1, Len(ds) - 1)) + (IndexIn(Digits, ds[Len(ds)]) - 1)

\* parseInt(s, 10): leading whitespace is skipped, then an optional sign and
\* the longest run of digits are read, whatever follows is ignored; NaN
\* (None) when no digit is read
ParseInt(s) ==
  LET t == TrimStart(s)
      signed == t # <<>> /\ Head(t) \in {"-", "+"}
      body == IF signed THEN Tail(t) ELSE t
      ds == LeadingDigits(body)
  IN IF ds = <<>> THEN None
     ELSE IF signed /\ Head(t) = "-" THEN Some(0 - DigitsValue(ds))
     ELSE Some(DigitsValue(ds))

\* assignedTo.map((id) => parseInt(id, 10)).filter((id) => !isNaN(id))
assignedToIds(assignedTo) ==
  LET parsed == [i \in 1..Len(assignedTo) |-> ParseInt(assignedTo[i])]
      kept == SelectSeq(parsed, IsSome)
  IN [i \in 1..Len(kept) |-> Val(kept[i])]

AssigneeConditions(p) ==
  IF IsSome(p.assignedTo) /\ Len(Val(p.assignedTo)) > 0
     /\ Len(assignedToIds(Val(p.assignedTo))) > 0
  THEN << [kind |-> "assignedTo", arg |-> assignedToIds(Val(p.assignedTo))] >>
  ELSE <<>>

TextConditions(p) ==
  IF IsSome(normalizedQuery(p))
  THEN LET nq == Val(normalizedQuery(p))
       IN << [kind |-> "text",
              arg |-> <<prefixPattern(nq), inlinePattern(nq), containsPattern(nq)>>] >>
  ELSE <<>>

\* the letters condition without toLowerCase
LetterConditionsAsGiven(p) ==
  IF IsSome(p.letters) /\ Len(Val(p.letters)) > 0
  THEN << [kind |-> "letter", arg |-> Val(p.letters)] >>
  ELSE <<>>

\* eq(words.letter, letter.toLowerCase())
LetterConditions(p) ==
  IF IsSome(p.letters) /\ Len(Val(p.letters)) > 0
  THEN << [kind |-> "letter",
           arg |-> [i \in 1..Len(Val(p.letters)) |->
                      MapChars(ToLowerChar, Val(p.letters)[i])]] >>
  ELSE <<>>

\* ilike(meanings.origin, `%${origin}%`)
OriginConditions(p) ==
  IF IsSome(p.origins) /\ Len(Val(p.origins)) > 0
  THEN << [kind |-> "origin",
           arg |-> [i \in 1..Len(Val(p.origins)) |->
                      <<"%">> \o Val(p.origins)[i] \o <<"%">>]] >>
  ELSE <<>>

DictionaryConditions(p) ==
  IF IsSome(p.dictionaries) /\ Len(Val(p.dictionaries)) > 0
  THEN << [kind |-> "dictionary", arg |-> Val(p.dictionaries)] >>
  ELSE <<>>

CategoryConditions(p) ==
  IF IsSome(p.categories) /\ Len(Val(p.categories)) > 0
  THEN << [kind |-> "grammarCategory", arg |-> Val(p.categories)] >>
  ELSE <<>>

\* markerFilters: the marker keys whose value list is present and not empty
markerFilters(p) ==
  [k \in Range(MEANING_MARKER_KEYS) |->
     IF IsSome(p[k]) /\ Len(Val(p[k])) > 0 THEN p[k] ELSE None]

\* for (const key of MEANING_MARKER_KEYS), from the i-th key on
RECURSIVE MarkerConditionsFrom(_, _)
MarkerConditionsFrom(p, i) ==
  IF i > Len(MEANING_MARKER_KEYS) THEN <<>>
  ELSE LET key == MEANING_MARKER_KEYS[i]
           values == markerFilters(p)[key]
       IN (IF IsSome(values) /\ Len(Val(values)) > 0
           THEN << [kind |-> key, arg |-> Val(values)] >>
           ELSE <<>>) \o MarkerConditionsFrom(p, i + 1)

MarkerConditions(p) == MarkerConditionsFrom(p, 1)

Conditions(p) ==
  VisibilityConditions(p) \o AssigneeConditions(p) \o TextConditions(p)
    \o LetterConditions(p) \o OriginConditions(p) \o DictionaryConditions(p)
    \o CategoryConditions(p) \o MarkerConditions(p)

\* one condition on one row of words LEFT JOIN meanings; meaning is None on
\* the NULL-extended row of a word without meanings
EvalCondition(c, word, meaning) ==
  IF c.kind = "status" THEN word.status = c.arg[1]
  ELSE IF c.kind = "assignedTo"
       THEN /\ IsSome(word.assignedTo)
            /\ \E i \in 1..Len(c.arg) : Val(word.assignedTo) = c.arg[i]
  ELSE IF c.kind = "text"
       THEN \E i \in 1..Len(c.arg) :
              Like(UnaccentLower(word.lemma), UnaccentLower(c.arg[i]))
  ELSE IF c.kind = "letter"
       THEN \E i \in 1..Len(c.arg) : word.letter = c.arg[i]
  ELSE IF c.kind = "origin"
       THEN /\ IsSome(meaning)
            /\ IsSome(Val(meaning).origin)
            /\ \E i \in 1..Len(c.arg) :
                 Like(MapChars(ToLowerChar, Val(Val(meaning).origin)),
                      MapChars(ToLowerChar, c.arg[i]))
  ELSE IF c.kind = "grammarCategory"
       THEN /\ IsSome(meaning)
            /\ \E i \in 1..Len(c.arg) : Val(meaning).grammarCategory = c.arg[i]
  ELSE /\ IsSome(meaning)
       /\ \E i \in 1..Len(c.arg) : Val(meaning)[c.kind] = Some(c.arg[i])

\* rows of words LEFT JOIN meanings: <<word id, meaning position or 0>>
JoinRows(st) ==
  UNION { IF Len(Words[id].meanings) = 0 THEN { <<id, 0>> }
          ELSE { <<id, k>> : k \in 1..Len(Words[id].meanings) } : id \in st }

RowMeaning(r) == IF r[2] = 0 THEN None ELSE Some(Words[r[1]].meanings[r[2]])

\* a WHERE in which every condition may be met by a different meaning of the word
WhereRowsAnyMeaning(st, p) ==
  LET conds == Conditions(p)
  IN { r \in JoinRows(st) :
         \A i \in 1..Len(conds) :
           \E r2 \in JoinRows(st) :
             r2[1] = r[1] /\ EvalCondition(conds[i], Words[r2[1]], RowMeaning(r2)) }

\* .where(whereClause)
WhereRows(st, p) ==
  LET conds == Conditions(p)
  IN { r \in JoinRows(st) :
         \A i \in 1..Len(conds) : EvalCondition(conds[i], Words[r[1]], RowMeaning(r)) }

\* count(*) over the joined rows
CountRows(st, p) == Cardinality(WhereRows(st, p))

\* count(distinct words.id)
CountDistinct(st, p) == Cardinality({ r[1] : r \in WhereRows(st, p) })

\* ------------------------------------------------------------------------
\* Candidate selector: the page query
\* ------------------------------------------------------------------------
\* an ORDER BY on the alphabetical expression alone
matchPriorityNone(p, word) == 4

\* matchPriorityExpression, evaluated on one word
matchPriority(p, word) ==
  IF IsSome(normalizedQuery(p))
  THEN LET nq == Val(normalizedQuery(p))
           l == UnaccentLower(word.lemma)
       IN IF l = UnaccentLower(nq) THEN 0
          ELSE IF Like(l, UnaccentLower(prefixPattern(nq))) THEN 1
          ELSE IF Like(l, UnaccentLower(inlinePattern(nq))) THEN 2
          ELSE IF Like(l, UnaccentLower(containsPattern(nq))) THEN 3
          ELSE 4
  ELSE 4

\* .groupBy(words.id, ...): one row per word
GroupedIds(st, p) == { r[1] : r \in WhereRows(st, p) }

\* ORDER BY matchPriorityExpression, alphabeticalOrderExpression
OrderedBefore(p, a, b) ==
  \/ matchPriority(p, Words[a]) < matchPriority(p, Words[b])
  \/ /\ matchPriority(p, Words[a]) = matchPriority(p, Words[b])
     /\ CompareText(UnaccentLower(Words[a].lemma), UnaccentLower(Words[b].lemma)) <= 0

\* every order of the grouped rows the store may produce: rows that tie under
\* the ORDER BY come in any order
StoreOrders(st, p) ==
  LET ids == GroupedIds(st, p)
      n == Cardinality(ids)
  IN { ord \in [1..n -> ids] :
         /\ \A i, j \in 1..n : i # j => ord[i] # ord[j]
         /\ \A i, j \in 1..n : i < j => OrderedBefore(p, ord[i], ord[j]) }

\* .limit(limit) without the offset
LimitOnly(ord, limit, off) ==
  LET last == IF limit < Len(ord) THEN limit ELSE Len(ord)
  IN SubSeq(ord, 1, last)

\* .limit(limit).offset(offset) on an ordered row list
LimitOffset(ord, limit, off) ==
  LET last == IF off + limit < Len(ord) THEN off + limit ELSE Len(ord)
  IN SubSeq(ord, off + 1, last)

\* ------------------------------------------------------------------------
\* Result assembler
\* ------------------------------------------------------------------------
compareLemma(a, b) == localeCompare(Words[a.id].lemma, Words[b.id].lemma)

RECURSIVE InsertSorted(_, _)
InsertSorted(x, sorted) ==
  IF sorted = <<>> THEN <<x>>
  ELSE IF compareLemma(x, Head(sorted)) < 0 THEN <<x>> \o sorted
  ELSE <<Head(sorted)>> \o InsertSorted(x, Tail(sorted))

RECURSIVE SortAcc(_, _)
SortAcc(seq, acc) ==
  IF seq = <<>> THEN acc ELSE SortAcc(Tail(seq), InsertSorted(Head(seq), acc))

\* Array.prototype.sort(compareLemma): a stable sort
SortByLemma(seq) == SortAcc(seq, <<>>)

\* the map that takes every page row as fetched
wordsWithMeaningsAllFound(p, pageRows, found) ==
  [ i \in 1..Len(pageRows) |->
      [ id |-> pageRows[i],
        hasFullWord |-> TRUE,
        matchType |-> MatchType(p.query, TRUE, Words[pageRows[i]].lemma) ] ]

\* results.map(...): fullWord lookup and match type of every page row
wordsWithMeanings(p, pageRows, found) ==
  [ i \in 1..Len(pageRows) |->
      LET hasFull == pageRows[i] \in found
      IN [ id |-> pageRows[i],
           hasFullWord |-> hasFull,
           matchType |-> MatchType(p.query, hasFull,
                                   IF hasFull THEN Words[pageRows[i]].lemma ELSE <<>>) ] ]

RECURSIVE FlatBuckets(_, _)
FlatBuckets(wwm, buckets) ==
  IF buckets = <<>> THEN <<>>
  ELSE SortByLemma(SelectSeq(wwm, LAMBDA e : e.hasFullWord /\ e.matchType = Head(buckets)))
       \o FlatBuckets(wwm, Tail(buckets))

\* bucketOrder.flatMap(...)
orderedResults(wwm) == FlatBuckets(wwm, bucketOrder)

\* orderedResults.map(...): the returned list
finalResults(p, pageRows, found) ==
  LET ordered == orderedResults(wordsWithMeanings(p, pageRows, found))
  IN [ i \in 1..Len(ordered) |->
         [ id |-> ordered[i].id,
           matchType |-> ordered[i].matchType,
           match |-> mappedMatch(ordered[i].matchType) ] ]

\* ------------------------------------------------------------------------
\* Role utilities (src/lib/role-utils.ts)
\* ------------------------------------------------------------------------
\* the role table with superadmin assignable by an admin too
getAllowedRolesFlat(userRole) ==
  IF userRole = "superadmin" \/ userRole = "admin"
  THEN <<"lexicographer", "admin", "superadmin">>
  ELSE <<>>

getAllowedRoles(userRole) ==
  IF userRole = "superadmin" THEN <<"lexicographer", "admin", "superadmin">>
  ELSE IF userRole = "admin" THEN <<"lexicographer", "admin">>
  ELSE <<>>

\* a validation that accepts every role
validateRoleAssignmentAny(currentUserRole, targetRole) == [valid |-> TRUE, error |-> None]

\* {valid, error}: error is present exactly when valid is false
validateRoleAssignment(currentUserRole, targetRole) ==
  LET allowedRoles == getAllowedRoles(currentUserRole)
  IN IF ~IsIn(allowedRoles, targetRole)
     THEN [valid |-> FALSE, error |-> Some("not authorized to assign role")]
     ELSE [valid |-> TRUE, error |-> None]

canManageUser(currentUserRole, targetUserRole) ==
  LET allowedRoles == getAllowedRoles(currentUserRole)
  IN IsIn(allowedRoles, targetUserRole)

\* ------------------------------------------------------------------------
\* Users table and its queries (src/lib/queries.ts)
\* ------------------------------------------------------------------------
root == <<"r","o","o","t">>
ana == <<"a","n","a">>
leo == <<"l","e","o">>
eva == <<"e","v","a">>
rootMail == <<"r","@","x">>
anaMail == <<"a","@","x">>
leoMail == <<"l","@","x">>
evaMail == <<"e","@","x">>

\* the users the table can hold at the start, by users.id
UserCatalogue ==
  << [username |-> root, email |-> rootMail, role |-> "superadmin"],
     [username |-> ana, email |-> anaMail, role |-> "admin"],
     [username |-> leo, email |-> leoMail, role |-> "lexicographer"],
     [username |-> eva, email |-> evaMail, role |-> "superadmin"] >>

\* a users table: a function from the ids of its rows to the rows
UserTables ==
  { [id \in ids |-> UserCatalogue[id]] :
      ids \in { i \in SUBSET DOMAIN UserCatalogue : Cardinality(i) <= MaxUsers } }

\* lower() of the store and String.prototype.toLowerCase
Lower(s) == MapChars(ToLowerChar, s)

\* where lower(username) = lower(arg) limit 1: the id of the row, or null
getUserByUsername(us, username) ==
  LET found == { id \in DOMAIN us : Lower(us[id].username) = Lower(username) }
  IN IF found = {} THEN None ELSE Some(CHOOSE id \in found : TRUE)

\* where lower(email) = lower(arg) limit 1
getUserByEmail(us, email) ==
  LET found == { id \in DOMAIN us : Lower(us[id].email) = Lower(email) }
  IN IF found = {} THEN None ELSE Some(CHOOSE id \in found : TRUE)

getUserById(us, userId) ==
  IF userId \in DOMAIN us THEN Some(us[userId]) ELSE None

\* insert into users ... returning: the table with the new row
createUser(us, newId, data) ==
  [ id \in DOMAIN us \cup {newId} |->
      IF id = newId
      THEN [username |-> Val(data.username), email |-> Val(data.email),
            role |-> Val(data.role)]
      ELSE us[id] ]

\* update users set {...data} where id = userId
updateUser(us, userId, data) ==
  IF userId \in DOMAIN us
  THEN [ us EXCEPT ![userId] =
           [username |-> IF IsSome(data.username) THEN Val(data.username) ELSE @.username,
            email |-> IF IsSome(data.email) THEN Val(data.email) ELSE @.email,
            role |-> IF IsSome(data.role) THEN Val(data.role) ELSE @.role] ]
  ELSE us

\* delete from users where id = userId
deleteUser(us, userId) == [ id \in DOMAIN us \ {userId} |-> us[id] ]

\* one call of a mutating query function, as the handlers make it
DbCall(fn, userId, data) == [fn |-> fn, id |-> userId, data |-> data]

NoData == [username |-> None, email |-> None, role |-> None]

RECURSIVE ApplyDbCalls(_, _)
ApplyDbCalls(us, calls) ==
  IF calls = <<>> THEN us
  ELSE LET c == Head(calls)
           next == IF c.fn = "createUser" THEN createUser(us, c.id, c.data)
                   ELSE IF c.fn = "updateUser" THEN updateUser(us, c.id, c.data)
                   ELSE deleteUser(us, c.id)
       IN ApplyDbCalls(next, Tail(calls))

\* ------------------------------------------------------------------------
\* User management: server actions (lib/actions) and /api/users/[id]
\* ------------------------------------------------------------------------
\* {success: false, error} of a server action
Failure(error) == [ok |-> FALSE, status |-> 0, error |-> error]
\* {success: true, ...} of a server action
Success == [ok |-> TRUE, status |-> 0, error |-> ""]
\* NextResponse.json(..., {status})
Response(status, error) == [ok |-> status = 200, status |-> status, error |-> error]

Outcome(result, dbCalls) == [result |-> result, dbCalls |-> dbCalls]

IsAdminRole(role) == role = "admin" \/ role = "superadmin"

\* the error requireAdminRole throws, None when it returns the user
requireAdminRole(cur) ==
  IF ~IsSome(cur) THEN Some("Unauthorized: No session found")
  ELSE IF ~IsAdminRole(Val(cur).role)
       THEN Some("Unauthorized: Admin or superadmin role required")
       ELSE None

\* the response requireAdminForApi throws, None when it returns the user
requireAdminForApi(cur) ==
  IF ~IsSome(cur) THEN Some(Response(401, "Unauthorized"))
  ELSE IF ~IsAdminRole(Val(cur).role)
       THEN Some(Response(403, "Forbidden: Admin role required"))
       ELSE None

\* setupUserApiRoute: {error} or {currentUser, userId}
setupUserApiRoute(cur, idParam) ==
  IF IsSome(requireAdminForApi(cur))
  THEN [error |-> requireAdminForApi(cur), userId |-> None]
  ELSE IF ~IsSome(ParseInt(idParam))
       THEN [error |-> Some(Response(400, "Invalid user ID")), userId |-> None]
       ELSE [error |-> None, userId |-> ParseInt(idParam)]

\* createUserAction with the untrimmed username handed to createUser
createUserActionRawUsername(us, newId, cur, username, email, role) ==
  IF IsSome(requireAdminRole(cur)) THEN Outcome(Failure(Val(requireAdminRole(cur))), <<>>)
  ELSE IF ~validateRoleAssignment(Val(cur).role, role).valid
       THEN Outcome(Failure(Val(validateRoleAssignment(Val(cur).role, role).error)), <<>>)
  ELSE IF username = <<>> \/ Len(Trim(username)) < 3
       THEN Outcome(Failure("Username must be at least 3 characters long"), <<>>)
  ELSE IF email = <<>> \/ ~Includes(email, <<"@">>)
       THEN Outcome(Failure("Invalid email address"), <<>>)
  ELSE IF IsSome(getUserByUsername(us, Trim(username)))
       THEN Outcome(Failure("Username already exists"), <<>>)
  ELSE IF IsSome(getUserByEmail(us, Lower(Trim(email))))
       THEN Outcome(Failure("Email already exists"), <<>>)
  ELSE Outcome(Success,
               << DbCall("createUser", newId,
                         [username |-> Some(username),
                          email |-> Some(Lower(Trim(email))),
                          role |-> Some(role)]) >>)

\* createUserAction up to the createUser call
createUserActionOutcome(us, newId, cur, username, email, role) ==
  IF IsSome(requireAdminRole(cur)) THEN Outcome(Failure(Val(requireAdminRole(cur))), <<>>)
  ELSE IF ~validateRoleAssignment(Val(cur).role, role).valid
       THEN Outcome(Failure(Val(validateRoleAssignment(Val(cur).role, role).error)), <<>>)
  ELSE IF username = <<>> \/ Len(Trim(username)) < 3
       THEN Outcome(Failure("Username must be at least 3 characters long"), <<>>)
  ELSE IF email = <<>> \/ ~Includes(email, <<"@">>)
       THEN Outcome(Failure("Invalid email address"), <<>>)
  ELSE IF IsSome(getUserByUsername(us, Trim(username)))
       THEN Outcome(Failure("Username already exists"), <<>>)
  ELSE IF IsSome(getUserByEmail(us, Lower(Trim(email))))
       THEN Outcome(Failure("Email already exists"), <<>>)
  ELSE Outcome(Success,
               << DbCall("createUser", newId,
                         [username |-> Some(Trim(username)),
                          email |-> Some(Lower(Trim(email))),
                          role |-> Some(role)]) >>)

\* updateData of updateUserAction: the truthy fields of data
actionUpdateData(data) ==
  [username |-> IF IsSome(data.username) /\ Val(data.username) # <<>>
                THEN Some(Trim(Val(data.username))) ELSE None,
   email |-> IF IsSome(data.email) /\ Val(data.email) # <<>>
             THEN Some(Lower(Trim(Val(data.email)))) ELSE None,
   role |-> IF IsSome(data.role) /\ Val(data.role) # "" THEN data.role ELSE None]

updateUserActionOutcome(us, cur, userId, data) ==
  LET upd == actionUpdateData(data)
  IN IF IsSome(requireAdminRole(cur)) THEN Outcome(Failure(Val(requireAdminRole(cur))), <<>>)
     ELSE IF IsSome(upd.role) /\ ~validateRoleAssignment(Val(cur).role, Val(upd.role)).valid
          THEN Outcome(Failure(Val(validateRoleAssignment(Val(cur).role, Val(upd.role)).error)),
                       <<>>)
     ELSE IF /\ IsSome(upd.username)
             /\ IsSome(getUserByUsername(us, Val(upd.username)))
             /\ Val(getUserByUsername(us, Val(upd.username))) # userId
          THEN Outcome(Failure("Username already exists"), <<>>)
     ELSE IF /\ IsSome(upd.email)
             /\ IsSome(getUserByEmail(us, Val(upd.email)))
             /\ Val(getUserByEmail(us, Val(upd.email))) # userId
          THEN Outcome(Failure("Email already exists"), <<>>)
     ELSE IF userId \in DOMAIN us
          THEN Outcome(Success, << DbCall("updateUser", userId, upd) >>)
          \* updateUser returns undefined, reading updatedUser.id throws
          ELSE Outcome(Failure("Cannot read properties of undefined"),
                       << DbCall("updateUser", userId, upd) >>)

\* deleteUserAction without the test for the own account
deleteUserActionNoSelfTest(us, cur, userId) ==
  IF IsSome(requireAdminRole(cur)) THEN Outcome(Failure(Val(requireAdminRole(cur))), <<>>)
  ELSE IF ~IsSome(getUserById(us, userId))
       THEN Outcome(Failure("User not found"), <<>>)
  ELSE IF /\ Val(getUserById(us, userId)).role # ""
          /\ ~canManageUser(Val(cur).role, Val(getUserById(us, userId)).role)
       THEN Outcome(Failure("No tienes permisos para eliminar este usuario"), <<>>)
  ELSE Outcome(Success, << DbCall("deleteUser", userId, NoData) >>)

deleteUserActionOutcome(us, cur, userId) ==
  IF IsSome(requireAdminRole(cur)) THEN Outcome(Failure(Val(requireAdminRole(cur))), <<>>)
  ELSE IF Val(cur).id = userId
       THEN Outcome(Failure("Cannot delete your own account"), <<>>)
  ELSE IF ~IsSome(getUserById(us, userId))
       THEN Outcome(Failure("User not found"), <<>>)
  ELSE IF /\ Val(getUserById(us, userId)).role # ""
          /\ ~canManageUser(Val(cur).role, Val(getUserById(us, userId)).role)
       THEN Outcome(Failure("No tienes permisos para eliminar este usuario"), <<>>)
  ELSE Outcome(Success, << DbCall("deleteUser", userId, NoData) >>)

\* updateData of PUT: the fields of the body that are not undefined
putUpdateData(body) ==
  [username |-> IF IsSome(body.username) THEN Some(Trim(Val(body.username))) ELSE None,
   email |-> IF IsSome(body.email) THEN Some(Lower(Trim(Val(body.email)))) ELSE None,
   role |-> body.role]

\* PUT /api/users/[id]
PUTOutcome(us, cur, idParam, body) ==
  LET setup == setupUserApiRoute(cur, idParam)
  IN IF IsSome(setup.error) THEN Outcome(Val(setup.error), <<>>)
     ELSE IF IsSome(body.username) /\ Len(Trim(Val(body.username))) < 3
          THEN Outcome(Response(400, "Username must be at least 3 characters long"), <<>>)
     ELSE IF IsSome(body.email) /\ ~Includes(Val(body.email), <<"@">>)
          THEN Outcome(Response(400, "Invalid email address"), <<>>)
     ELSE IF IsSome(body.role) /\ ~validateRoleAssignment(Val(cur).role, Val(body.role)).valid
          THEN Outcome(Response(403, Val(validateRoleAssignment(Val(cur).role,
                                                                Val(body.role)).error)), <<>>)
     ELSE Outcome(Response(200, ""),
                  << DbCall("updateUser", Val(setup.userId), putUpdateData(body)) >>)

\* DELETE /api/users/[id]
DELETEOutcome(us, cur, idParam) ==
  LET setup == setupUserApiRoute(cur, idParam)
      userId == Val(setup.userId)
  IN IF IsSome(setup.error) THEN Outcome(Val(setup.error), <<>>)
     ELSE IF Val(cur).id = userId
          THEN Outcome(Response(400, "Cannot delete your own account"), <<>>)
     ELSE IF ~IsSome(getUserById(us, userId))
          THEN Outcome(Response(404, "User not found"), <<>>)
     ELSE IF /\ Val(getUserById(us, userId)).role # ""
             /\ ~canManageUser(Val(cur).role, Val(getUserById(us, userId)).role)
          THEN Outcome(Response(403, "No tienes permisos para eliminar este usuario"), <<>>)
     ELSE Outcome(Response(200, ""), << DbCall("deleteUser", userId, NoData) >>)

\* ------------------------------------------------------------------------
\* State
\* ------------------------------------------------------------------------
VARIABLES
  store,       \* the words table with the meanings of every word
  pc,          \* position of the searchWords call: idle, count, page, detail, done, failed
  params,      \* the SearchWordsParams of the call
  total,       \* total of the count query
  offset,      \* offset of the page query
  rows,        \* results of the page query, the ids in row order
  results,     \* the returned results list
  pagesSoFar,  \* returned lists of pages 1..k requested one after the other
  issued,      \* the store queries the call has issued so far, in order
  storeError,  \* a store query of the call was rejected
  firstOutput, \* what the call returned before it was made a second time
  cq,          \* classifier check: the query
  cl,          \* classifier check: the lemma
  ctier,       \* classifier check: the match type, "none" before classification
  nvalue,      \* normalize check: the value
  nonce,       \* normalize check: normalize(value), undefined before the call
  ntwice,      \* normalize check: normalize(normalize(value)), undefined before the call
  rcurrent,    \* role check: the current user's role
  rtarget,     \* role check: the target role
  rallowed,    \* role check: getAllowedRoles(current), undefined before the call
  rvalid,      \* role check: validateRoleAssignment(current, target).valid
  rcan,        \* role check: canManageUser(current, target)
  users,       \* the users table
  tokens,      \* the ids of the users that have a password reset token
  nextUserId,  \* the next value of the users.id sequence
  call,        \* the user management call made last: its input, result and store
               \* calls, and the users table it found
  callsMade    \* the number of user management calls made

searchVars ==
  <<store, pc, params, total, offset, rows, results, pagesSoFar, issued, storeError,
    firstOutput>>

classifierVars == <<cq, cl, ctier>>

normalizeVars == <<nvalue, nonce, ntwice>>

\* everything that is not state of searchWords
roleVars == <<rcurrent, rtarget, rallowed, rvalid, rcan>>

userVars == <<users, tokens, nextUserId, call, callsMade>>

nonSearchVars == <<classifierVars, normalizeVars, roleVars, userVars>>

vars == <<searchVars, nonSearchVars>>

IdleParams ==
  [query |-> None, editorMode |-> None, status |-> None, categories |-> None,
   assignedTo |-> None, page |-> None, pageSize |-> None] @@ NoFacetParams

\* no searchWords call in progress
SearchIdle ==
  /\ pc = "idle"
  /\ params = IdleParams
  /\ total = 0
  /\ offset = 0
  /\ rows = <<>>
  /\ results = <<>>
  /\ pagesSoFar = <<>>
  /\ issued = <<>>
  /\ storeError = FALSE
  /\ firstOutput = None

ClassifierIdle ==
  /\ cq = <<>>
  /\ cl = <<>>
  /\ ctier = "none"

NormalizeIdle ==
  /\ nvalue = <<>>
  /\ nonce = None
  /\ ntwice = None

RoleIdle ==
  /\ rcurrent = ""
  /\ rtarget = ""
  /\ rallowed = None
  /\ rvalid = None
  /\ rcan = None

\* no user management call made
NoCall ==
  [op |-> "none", cur |-> None, userId |-> None, idParam |-> <<>>,
   username |-> None, email |-> None, role |-> None,
   result |-> [ok |-> FALSE, status |-> 0, error |-> ""],
   dbCalls |-> <<>>, mailSent |-> FALSE, before |-> <<>>]

UserIdle ==
  /\ users = <<>>
  /\ tokens = {}
  /\ nextUserId = Len(UserCatalogue) + 1
  /\ call = NoCall
  /\ callsMade = 0

Init ==
  /\ store \in Stores
  /\ SearchIdle
  /\ ClassifierIdle
  /\ NormalizeIdle
  /\ RoleIdle
  /\ UserIdle

\* ------------------------------------------------------------------------
\* searchWords, one action per store round-trip
\* ------------------------------------------------------------------------
\* a caller invokes searchWords(p)
Call(p) ==
  /\ pc = "idle"
  /\ pc' = "count"
  /\ params' = p
  /\ total' = 0
  /\ offset' = 0
  /\ rows' = <<>>
  /\ results' = <<>>
  /\ pagesSoFar' = <<>>
  /\ issued' = <<>>
  /\ storeError' = FALSE
  /\ firstOutput' = None
  /\ UNCHANGED <<store, nonSearchVars>>

\* the caller asks for the page after the one just returned, same query
NextPage ==
  /\ pc = "done"
  /\ Len(pagesSoFar) = PageOf(params)
  /\ PageSizeOf(params) >= 1
  /\ PageOf(params) * PageSizeOf(params) < total
  /\ pc' = "count"
  /\ params' = [params EXCEPT !.page = Some(PageOf(params) + 1)]
  /\ total' = 0
  /\ offset' = 0
  /\ rows' = <<>>
  /\ results' = <<>>
  /\ issued' = <<>>
  /\ storeError' = FALSE
  /\ firstOutput' = None
  /\ UNCHANGED <<store, pagesSoFar, nonSearchVars>>

\* await of the count query, then the offset computation
CountQuery ==
  /\ pc = "count"
  /\ total' = CountDistinct(store, params)
  /\ offset' = (PageOf(params) - 1) * PageSizeOf(params)
  /\ pc' = "page"
  /\ issued' = Append(issued, "count")
  /\ UNCHANGED <<store, params, rows, results, pagesSoFar, storeError, firstOutput, nonSearchVars>>

\* await of the page query; the store rejects a negative OFFSET or LIMIT
PageQuery ==
  /\ pc = "page"
  /\ IF offset < 0 \/ PageSizeOf(params) < 0
     THEN /\ pc' = "failed"
          /\ rows' = <<>>
          /\ storeError' = TRUE
     ELSE /\ pc' = "detail"
          /\ \E ord \in StoreOrders(store, params) :
               rows' = LimitOffset(ord, PageSizeOf(params), offset)
          /\ storeError' = storeError
  /\ issued' = Append(issued, "page")
  /\ UNCHANGED <<store, params, total, offset, results, pagesSoFar, firstOutput, nonSearchVars>>

\* await of findMany, then classification, bucketing and return
DetailFetch ==
  /\ pc = "detail"
  /\ LET fullWords == { id \in store : \E i \in 1..Len(rows) : rows[i] = id }
         res == finalResults(params, rows, fullWords)
     IN /\ results' = res
        /\ pagesSoFar' = IF PageOf(params) = Len(pagesSoFar) + 1
                         THEN Append(pagesSoFar, res)
                         ELSE pagesSoFar
  /\ pc' = "done"
  /\ issued' = Append(issued, "detail")
  /\ UNCHANGED <<store, params, total, offset, rows, storeError, firstOutput, nonSearchVars>>

\* the caller makes the call that has just returned once more, same params
RepeatCall ==
  /\ pc = "done"
  /\ firstOutput = None
  /\ firstOutput' = Some([results |-> results, total |-> total])
  /\ pc' = "count"
  /\ total' = 0
  /\ offset' = 0
  /\ rows' = <<>>
  /\ results' = <<>>
  /\ issued' = <<>>
  /\ storeError' = FALSE
  /\ UNCHANGED <<store, params, pagesSoFar, nonSearchVars>>

\* a store query that continues with empty data after a rejection
StoreFailureSwallowed ==
  /\ pc \in {"count", "page", "detail"}
  /\ issued' = Append(issued, pc)
  /\ storeError' = TRUE
  /\ pc' = IF pc = "count" THEN "page" ELSE IF pc = "page" THEN "detail" ELSE "done"
  /\ UNCHANGED <<store, params, total, offset, rows, results, pagesSoFar, firstOutput, nonSearchVars>>

\* the awaited store query (count, page or findMany) is rejected: nothing in
\* searchWords catches, the rejection ends the call
StoreFailure ==
  /\ pc \in {"count", "page", "detail"}
  /\ issued' = Append(issued, pc)
  /\ storeError' = TRUE
  /\ pc' = "failed"
  /\ UNCHANGED <<store, params, total, offset, rows, results, pagesSoFar, firstOutput, nonSearchVars>>

\* another request deletes a word while the call is between store queries
DeleteWord(id) ==
  /\ pc \in {"count", "page", "detail"}
  /\ id \in store
  /\ store' = store \ {id}
  /\ UNCHANGED <<pc, params, total, offset, rows, results, pagesSoFar, issued,
                 storeError, firstOutput, nonSearchVars>>

Next ==
  \/ \E p \in ParamSpace : Call(p)
  \/ NextPage
  \/ CountQuery
  \/ PageQuery
  \/ DetailFetch

Spec == Init /\ [][Next]_vars

\* ------------------------------------------------------------------------
\* The classifier on its own: every query and lemma up to a length
\* ------------------------------------------------------------------------
ClassifyAlphabet == {"a", "b", "A", "aacute", "U0301", " ", "iquest"}

StringsUpTo(n) == UNION { [1..k -> ClassifyAlphabet] : k \in 0..n }

cafe == <<"c","a","f","e">>
cafeAccent == <<"c","a","f","eacute">>
iquestIexclCasa == <<"iquest","iexcl","c","a","s","a">>

\* <<query, lemma>> of the scenarios of the specification
ScenarioPairs ==
  { <<casa, casa>>, <<casa, casapuerta>>, <<casa, miCasaLinda>>,
    <<cafeAccent, cafe>>, <<casa, iquestIexclCasa>>, <<casa, acasa>> }

ClassifyInit ==
  /\ store = {}
  /\ SearchIdle
  /\ NormalizeIdle
  /\ RoleIdle
  /\ UserIdle
  /\ \E pair \in (StringsUpTo(MaxQueryLen) \X StringsUpTo(MaxLemmaLen)) \cup ScenarioPairs :
       /\ cq = pair[1]
       /\ cl = pair[2]
  /\ ctier = "none"

\* the classification of one fetched word
Classify ==
  /\ ctier = "none"
  /\ ctier' = MatchType(Some(cq), TRUE, cl)
  /\ UNCHANGED <<searchVars, cq, cl, normalizeVars, roleVars, userVars>>

ClassifyNext == Classify

ClassifySpec == ClassifyInit /\ [][ClassifyNext]_vars

\* ------------------------------------------------------------------------
\* normalize on its own: every value up to a length
\* ------------------------------------------------------------------------
NormalizeAlphabet == ClassifyAlphabet \cup {"Aacute", "ntilde", "Ntilde", "U0303"}

NormalizeValues == UNION { [1..k -> NormalizeAlphabet] : k \in 0..MaxLemmaLen }

NormalizeInit ==
  /\ store = {}
  /\ SearchIdle
  /\ ClassifierIdle
  /\ RoleIdle
  /\ UserIdle
  /\ nvalue \in NormalizeValues
  /\ nonce = None
  /\ ntwice = None

\* normalize(value), then normalize of its result
NormalizeTwice ==
  /\ nonce = None
  /\ nonce' = Some(normalize(nvalue))
  /\ ntwice' = Some(normalize(normalize(nvalue)))
  /\ UNCHANGED <<searchVars, classifierVars, nvalue, roleVars, userVars>>

NormalizeNext == NormalizeTwice

NormalizeSpec == NormalizeInit /\ [][NormalizeNext]_vars

\* ------------------------------------------------------------------------
\* The role utilities on their own: every pair of roles of a pool
\* ------------------------------------------------------------------------
RolePool ==
  { "superadmin", "admin", "lexicographer", "editor", "user", "",
    "Admin", "SUPERADMIN" }

RoleInit ==
  /\ store = {}
  /\ SearchIdle
  /\ ClassifierIdle
  /\ NormalizeIdle
  /\ UserIdle
  /\ rcurrent \in RolePool
  /\ rtarget \in RolePool
  /\ rallowed = None
  /\ rvalid = None
  /\ rcan = None

\* the three utilities applied to the pair
EvaluateRoles ==
  /\ rallowed = None
  /\ rallowed' = Some(getAllowedRoles(rcurrent))
  /\ rvalid' = Some(validateRoleAssignment(rcurrent, rtarget).valid)
  /\ rcan' = Some(canManageUser(rcurrent, rtarget))
  /\ UNCHANGED <<searchVars, classifierVars, normalizeVars, rcurrent, rtarget, userVars>>

RoleNext == EvaluateRoles

RoleSpec == RoleInit /\ [][RoleNext]_vars

\* ------------------------------------------------------------------------
\* User management: one call of a server action or of an /api/users/[id]
\* handler against a users table
\* ------------------------------------------------------------------------
noe == <<"n","o","e">>

UsernameInputs ==
  { noe, <<" ","n","o","e"," ">>, <<"n","o">>, <<" ","n","o"," ">>, <<"A","N","A">>, <<>> }

EmailInputs ==
  { <<"n","@","x">>, <<" ","N","@","X"," ">>, <<"n","x">>, <<"A","@","X">>, <<>> }

RoleInputs == { "lexicographer", "admin", "superadmin", "editor" }

\* the userId argument of the server actions
UserIds == 1..(Len(UserCatalogue) + 1)

\* the [id] segment of the route
IdParams == { <<"1">>, <<"2">>, <<"3">>, <<"4">>, <<"5">>, <<"x">>, <<"2","a">> }

\* the optional fields of an update
UpdateInputs ==
  [ username : {None} \cup { Some(u) : u \in UsernameInputs },
    email : {None} \cup { Some(e) : e \in EmailInputs },
    role : {None} \cup { Some(r) : r \in RoleInputs \cup {""} } ]

\* getSessionUser(): no session, or the session of a user of the table
Sessions == {None} \cup { Some([id |-> id, role |-> users[id].role]) : id \in DOMAIN users }

UserInit ==
  /\ store = {}
  /\ SearchIdle
  /\ ClassifierIdle
  /\ NormalizeIdle
  /\ RoleIdle
  /\ users \in UserTables
  /\ tokens = {}
  /\ nextUserId = Len(UserCatalogue) + 1
  /\ call = NoCall
  /\ callsMade = 0

otherThanUserVars == <<searchVars, classifierVars, normalizeVars, roleVars>>

\* createUserAction where a failing token insert or welcome mail reaches the
\* outer catch
createUserActionMailFatal ==
  /\ call.op = "none"
  /\ \E cur \in Sessions, username \in UsernameInputs, email \in EmailInputs,
        role \in RoleInputs, tokenOk, mailOk \in BOOLEAN :
     LET out == createUserActionOutcome(users, nextUserId, cur, username, email, role)
         created == out.dbCalls # <<>>
     IN /\ users' = ApplyDbCalls(users, out.dbCalls)
        /\ nextUserId' = IF created THEN nextUserId + 1 ELSE nextUserId
        /\ tokens' = IF created /\ tokenOk THEN tokens \cup {nextUserId} ELSE tokens
        /\ call' = [op |-> "createUserAction", cur |-> cur, userId |-> None,
                    idParam |-> <<>>, username |-> Some(username), email |-> Some(email),
                    role |-> Some(role),
                    result |-> IF created /\ ~(tokenOk /\ mailOk)
                               THEN Failure("Failed to create user") ELSE out.result,
                    dbCalls |-> out.dbCalls,
                    mailSent |-> created /\ tokenOk /\ mailOk, before |-> users]
  /\ callsMade' = callsMade + 1
  /\ UNCHANGED otherThanUserVars

\* createUserAction(username, email, role); the token insert and the welcome
\* mail may each fail, which the action only logs
createUserAction ==
  /\ call.op = "none"
  /\ \E cur \in Sessions, username \in UsernameInputs, email \in EmailInputs,
        role \in RoleInputs, tokenOk, mailOk \in BOOLEAN :
     LET out == createUserActionOutcome(users, nextUserId, cur, username, email, role)
         created == out.dbCalls # <<>>
     IN /\ users' = ApplyDbCalls(users, out.dbCalls)
        /\ nextUserId' = IF created THEN nextUserId + 1 ELSE nextUserId
        /\ tokens' = IF created /\ tokenOk THEN tokens \cup {nextUserId} ELSE tokens
        /\ call' = [op |-> "createUserAction", cur |-> cur, userId |-> None,
                    idParam |-> <<>>, username |-> Some(username), email |-> Some(email),
                    role |-> Some(role), result |-> out.result, dbCalls |-> out.dbCalls,
                    mailSent |-> created /\ tokenOk /\ mailOk, before |-> users]
  /\ callsMade' = callsMade + 1
  /\ UNCHANGED otherThanUserVars

\* updateUserAction(userId, data)
updateUserAction ==
  /\ call.op = "none"
  /\ \E cur \in Sessions, userId \in UserIds, data \in UpdateInputs :
     LET out == updateUserActionOutcome(users, cur, userId, data)
     IN /\ users' = ApplyDbCalls(users, out.dbCalls)
        /\ call' = [op |-> "updateUserAction", cur |-> cur, userId |-> Some(userId),
                    idParam |-> <<>>, username |-> data.username, email |-> data.email,
                    role |-> data.role, result |-> out.result, dbCalls |-> out.dbCalls,
                    mailSent |-> FALSE, before |-> users]
  /\ callsMade' = callsMade + 1
  /\ UNCHANGED <<tokens, nextUserId, otherThanUserVars>>

\* deleteUserAction(userId)
deleteUserAction ==
  /\ call.op = "none"
  /\ \E cur \in Sessions, userId \in UserIds :
     LET out == deleteUserActionOutcome(users, cur, userId)
     IN /\ users' = ApplyDbCalls(users, out.dbCalls)
        /\ call' = [op |-> "deleteUserAction", cur |-> cur, userId |-> Some(userId),
                    idParam |-> <<>>, username |-> None, email |-> None, role |-> None,
                    result |-> out.result, dbCalls |-> out.dbCalls, mailSent |-> FALSE,
                    before |-> users]
  /\ callsMade' = callsMade + 1
  /\ UNCHANGED <<tokens, nextUserId, otherThanUserVars>>

\* PUT /api/users/[id] with a JSON body
PUT ==
  /\ call.op = "none"
  /\ \E cur \in Sessions, idParam \in IdParams, body \in UpdateInputs :
     LET out == PUTOutcome(users, cur, idParam, body)
     IN /\ users' = ApplyDbCalls(users, out.dbCalls)
        /\ call' = [op |-> "PUT", cur |-> cur, userId |-> ParseInt(idParam),
                    idParam |-> idParam, username |-> body.username, email |-> body.email,
                    role |-> body.role, result |-> out.result, dbCalls |-> out.dbCalls,
                    mailSent |-> FALSE, before |-> users]
  /\ callsMade' = callsMade + 1
  /\ UNCHANGED <<tokens, nextUserId, otherThanUserVars>>

\* DELETE /api/users/[id]
DELETE ==
  /\ call.op = "none"
  /\ \E cur \in Sessions, idParam \in IdParams :
     LET out == DELETEOutcome(users, cur, idParam)
     IN /\ users' = ApplyDbCalls(users, out.dbCalls)
        /\ call' = [op |-> "DELETE", cur |-> cur, userId |-> ParseInt(idParam),
                    idParam |-> idParam, username |-> None, email |-> None, role |-> None,
                    result |-> out.result, dbCalls |-> out.dbCalls, mailSent |-> FALSE,
                    before |-> users]
  /\ callsMade' = callsMade + 1
  /\ UNCHANGED <<tokens, nextUserId, otherThanUserVars>>

UserNext ==
  \/ createUserAction
  \/ updateUserAction
  \/ deleteUserAction
  \/ PUT
  \/ DELETE

UserSpec == UserInit /\ [][UserNext]_vars

\* ------------------------------------------------------------------------
\* resetUserPasswordAction, one call on a table in which a user may have no
\* email
\* ------------------------------------------------------------------------
ResetTables ==
  UserTables \cup
    { [t EXCEPT ![id] = [@ EXCEPT !.email = <<>>]] : <<t, id>> \in UserTables \X DOMAIN UserCatalogue }

\* the result of resetUserPasswordAction(userId) with the token insert and
\* the mail each succeeding or throwing, and what the call did
resetUserPasswordActionOutcome(us, cur, userId, tokenOk, mailOk) ==
  LET target == getUserById(us, userId)
      done(result, token, mail) == [result |-> result, tokenCreated |-> token, mailSent |-> mail]
  IN IF IsSome(requireAdminRole(cur))
     THEN done(Failure(Val(requireAdminRole(cur))), FALSE, FALSE)
     ELSE IF ~IsSome(target) THEN done(Failure("User not found"), FALSE, FALSE)
     ELSE IF /\ Val(target).role # ""
             /\ ~validateRoleAssignment(Val(cur).role, Val(target).role).valid
          THEN done(Failure("No tienes permisos para restablecer la contraseña de este usuario"),
                    FALSE, FALSE)
     ELSE IF Val(cur).id = userId /\ ~(Val(cur).role = "superadmin" \/ Val(cur).role = "admin")
          THEN done(Failure("No puedes restablecer tu propia contraseña desde aquí"),
                    FALSE, FALSE)
     ELSE IF ~tokenOk THEN done(Failure("Failed to reset password"), FALSE, FALSE)
     ELSE IF Val(target).email = <<>>
          THEN done(Failure("El usuario no tiene un correo electrónico configurado"),
                    TRUE, FALSE)
     ELSE IF ~mailOk
          THEN done(Failure("Error al enviar el correo de restablecimiento"), TRUE, FALSE)
     ELSE done(Success, TRUE, TRUE)

ResetInit ==
  /\ store = {}
  /\ SearchIdle
  /\ ClassifierIdle
  /\ NormalizeIdle
  /\ RoleIdle
  /\ users \in ResetTables
  /\ tokens = {}
  /\ nextUserId = Len(UserCatalogue) + 1
  /\ call = NoCall
  /\ callsMade = 0

resetUserPasswordAction ==
  /\ call.op = "none"
  /\ \E cur \in Sessions, userId \in UserIds, tokenOk, mailOk \in BOOLEAN :
     LET out == resetUserPasswordActionOutcome(users, cur, userId, tokenOk, mailOk)
     IN /\ tokens' = IF out.tokenCreated THEN tokens \cup {userId} ELSE tokens
        /\ call' = [op |-> "resetUserPasswordAction", cur |-> cur, userId |-> Some(userId),
                    idParam |-> <<>>, username |-> None, email |-> None, role |-> None,
                    result |-> out.result, dbCalls |-> <<>>, mailSent |-> out.mailSent,
                    before |-> users]
  /\ callsMade' = callsMade + 1
  /\ UNCHANGED <<users, nextUserId, otherThanUserVars>>

ResetNext == resetUserPasswordAction

ResetSpec == ResetInit /\ [][ResetNext]_vars

\* ------------------------------------------------------------------------
\* Sequences of createUserAction, updateUserAction and PUT calls, each call
\* run to its end before the next, on a few inputs
\* ------------------------------------------------------------------------
MaxCalls == 2

ANA == <<"A","N","A">>

SeqUsernames == { noe, ANA }
SeqEmails == { <<"n","@","x">> }
SeqRoles == { "admin", "superadmin" }
SeqUserIds == {1, 3}
SeqIdParams == { <<"1">>, <<"3">> }
SeqUpdates ==
  [ username : {None, Some(ANA)},
    email : {None},
    role : {None, Some("admin"), Some("superadmin")} ]

SeqInit == UserInit

createUserActionCall ==
  /\ callsMade < MaxCalls
  /\ \E cur \in Sessions, username \in SeqUsernames, email \in SeqEmails, role \in SeqRoles :
     LET out == createUserActionOutcome(users, nextUserId, cur, username, email, role)
         created == out.dbCalls # <<>>
     IN /\ users' = ApplyDbCalls(users, out.dbCalls)
        /\ nextUserId' = IF created THEN nextUserId + 1 ELSE nextUserId
        /\ tokens' = IF created THEN tokens \cup {nextUserId} ELSE tokens
        /\ call' = [op |-> "createUserAction", cur |-> cur, userId |-> None,
                    idParam |-> <<>>, username |-> Some(username), email |-> Some(email),
                    role |-> Some(role), result |-> out.result, dbCalls |-> out.dbCalls,
                    mailSent |-> created, before |-> users]
  /\ callsMade' = callsMade + 1
  /\ UNCHANGED otherThanUserVars

updateUserActionCall ==
  /\ callsMade < MaxCalls
  /\ \E cur \in Sessions, userId \in SeqUserIds, data \in SeqUpdates :
     LET out == updateUserActionOutcome(users, cur, userId, data)
     IN /\ users' = ApplyDbCalls(users, out.dbCalls)
        /\ call' = [op |-> "updateUserAction", cur |-> cur, userId |-> Some(userId),
                    idParam |-> <<>>, username |-> data.username, email |-> data.email,
                    role |-> data.role, result |-> out.result, dbCalls |-> out.dbCalls,
                    mailSent |-> FALSE, before |-> users]
  /\ callsMade' = callsMade + 1
  /\ UNCHANGED <<tokens, nextUserId, otherThanUserVars>>

PUTCall ==
  /\ callsMade < MaxCalls
  /\ \E cur \in Sessions, idParam \in SeqIdParams, body \in SeqUpdates :
     LET out == PUTOutcome(users, cur, idParam, body)
     IN /\ users' = ApplyDbCalls(users, out.dbCalls)
        /\ call' = [op |-> "PUT", cur |-> cur, userId |-> ParseInt(idParam),
                    idParam |-> idParam, username |-> body.username, email |-> body.email,
                    role |-> body.role, result |-> out.result, dbCalls |-> out.dbCalls,
                    mailSent |-> FALSE, before |-> users]
  /\ callsMade' = callsMade + 1
  /\ UNCHANGED <<tokens, nextUserId, otherThanUserVars>>

SeqNext ==
  \/ createUserActionCall
  \/ updateUserActionCall
  \/ PUTCall

SeqSpec == SeqInit /\ [][SeqNext]_vars

\* ------------------------------------------------------------------------
\* Report endpoints: POST and GET of the PDF report route, GET of
\* /api/words/export.  The words are fetched by a helper of
\* lib/report-words-utils that answers with the words or with a response
\* of its own.
\* ------------------------------------------------------------------------
\* a call of a collaborator, in the list of calls a handler makes
Collab(fn) == DbCall(fn, 0, NoData)

\* POST of the report route: the throw of requireAdminForApi is caught by
\* the handler's own catch
reportPOSTOutcome(cur, fetchOk, mailOk) ==
  IF IsSome(requireAdminForApi(cur))
  THEN Outcome(Response(500, "Failed to generate and send report"), <<>>)
  ELSE IF ~fetchOk
       THEN Outcome(Response(401, "Authentication required"),
                    << Collab("authenticateAndFetchWordsByStatus") >>)
  ELSE IF ~mailOk
       THEN Outcome(Response(500, "Failed to send email"),
                    << Collab("authenticateAndFetchWordsByStatus"),
                       Collab("generatePDFreport"), Collab("sendRedactedWordsReport") >>)
  ELSE Outcome(Response(200, ""),
               << Collab("authenticateAndFetchWordsByStatus"),
                  Collab("generatePDFreport"), Collab("sendRedactedWordsReport") >>)

\* GET of the report route
reportGETOutcome(cur, fetchOk) ==
  IF IsSome(requireAdminForApi(cur))
  THEN Outcome(Response(500, "Failed to generate report"), <<>>)
  ELSE IF ~fetchOk
       THEN Outcome(Response(401, "Authentication required"),
                    << Collab("authenticateAndFetchWordsByStatus") >>)
  ELSE Outcome(Response(200, ""),
               << Collab("authenticateAndFetchWordsByStatus"), Collab("generatePDFreport") >>)

\* GET /api/words/export
exportGETOutcome(cur, fetchOk) ==
  IF IsSome(requireAdminForApi(cur))
  THEN Outcome(Response(500, "Failed to fetch redacted words"), <<>>)
  ELSE IF ~fetchOk
       THEN Outcome(Response(401, "Authentication required"),
                    << Collab("authenticateAndFetchRedactedWords") >>)
  ELSE Outcome(Response(200, ""), << Collab("authenticateAndFetchRedactedWords") >>)

\* the record of a report request
ReportCall(op, cur, out) ==
  [op |-> op, cur |-> cur, userId |-> None, idParam |-> <<>>, username |-> None,
   email |-> None, role |-> None, result |-> out.result, dbCalls |-> out.dbCalls,
   mailSent |-> \E i \in 1..Len(out.dbCalls) :
                   out.dbCalls[i].fn = "sendRedactedWordsReport",
   before |-> users]

reportPOST ==
  /\ call.op = "none"
  /\ \E cur \in Sessions, fetchOk, mailOk \in BOOLEAN :
       call' = ReportCall("reportPOST", cur, reportPOSTOutcome(cur, fetchOk, mailOk))
  /\ callsMade' = callsMade + 1
  /\ UNCHANGED <<users, tokens, nextUserId, otherThanUserVars>>

reportGET ==
  /\ call.op = "none"
  /\ \E cur \in Sessions, fetchOk \in BOOLEAN :
       call' = ReportCall("reportGET", cur, reportGETOutcome(cur, fetchOk))
  /\ callsMade' = callsMade + 1
  /\ UNCHANGED <<users, tokens, nextUserId, otherThanUserVars>>

exportGET ==
  /\ call.op = "none"
  /\ \E cur \in Sessions, fetchOk \in BOOLEAN :
       call' = ReportCall("exportGET", cur, exportGETOutcome(cur, fetchOk))
  /\ callsMade' = callsMade + 1
  /\ UNCHANGED <<users, tokens, nextUserId, otherThanUserVars>>

ReportNext ==
  \/ reportPOST
  \/ reportGET
  \/ exportGET

ReportSpec == UserInit /\ [][ReportNext]_vars

\* ------------------------------------------------------------------------
\* searchWords with the status and assignee filters, first page only
\* ------------------------------------------------------------------------
AssigneeStrings ==
  { <<"1">>, <<"2">>, <<"1", "a">>, <<"a">>, <<" ", "2">>, <<"-", "1">> }

AssignedToLists == UNION { [1..k -> AssigneeStrings] : k \in 0..MaxAssignees }

FacetParamSpace == WithNoFacets(
  [ query : {None},
    editorMode : {None, Some(TRUE)},
    status : {None, Some(""), Some("imported"), Some("redacted")},
    categories : {None},
    assignedTo : {None} \cup { Some(l) : l \in AssignedToLists },
    page : {None},
    pageSize : {None, Some(1)} ])

FacetNext ==
  \/ \E p \in FacetParamSpace : Call(p)
  \/ CountQuery
  \/ PageQuery
  \/ DetailFetch
  \/ RepeatCall

FacetSpec == Init /\ [][FacetNext]_vars

\* ------------------------------------------------------------------------
\* searchWords against a store that rejects queries and loses words while
\* the call runs
\* ------------------------------------------------------------------------
FaultParamSpace == WithNoFacets(
  [ query : {None, Some(casa)},
    editorMode : {None, Some(TRUE)},
    status : {None},
    categories : {None},
    assignedTo : {None},
    page : {None, Some(2)},
    pageSize : {None, Some(1)} ])

FaultNext ==
  \/ \E p \in FaultParamSpace : Call(p)
  \/ CountQuery
  \/ PageQuery
  \/ DetailFetch
  \/ StoreFailure
  \/ \E id \in DOMAIN Words : DeleteWord(id)

FaultSpec == Init /\ [][FaultNext]_vars

\* ------------------------------------------------------------------------
\* searchWords with the letter, origin, dictionary, category and marker
\* filters on the words of the facet scenarios, public mode, first page
\* ------------------------------------------------------------------------
FilterStores == { ids \in SUBSET FacetWordIds : Cardinality(ids) <= MaxEntries + 1 }

FilterParamSpace ==
  { b @@ NoFacetParams :
      b \in [ query : {None},
              editorMode : {None},
              status : {None},
              categories : {None, Some(<<>>), Some(<<"m">>), Some(<<"f", "m">>)},
              letters : {None, Some(<<>>), Some(<<<<"a">>>>), Some(<<<<"A">>>>),
                         Some(<< <<"b">>, <<"a">> >>)},
              origins : {None, Some(<< <<"l","a">> >>), Some(<< <<"q">>, <<"A","T">> >>)},
              dictionaries : {None, Some(<<"duech">>)},
              styleMarkers : {None, Some(<<>>), Some(<<"espont">>)},
              socialValuations : {None, Some(<<"vulgar">>)},
              assignedTo : {None, Some(<< <<"1">> >>)},
              page : {None},
              pageSize : {None} ] }

FilterInit ==
  /\ store \in FilterStores
  /\ SearchIdle
  /\ ClassifierIdle
  /\ NormalizeIdle
  /\ RoleIdle
  /\ UserIdle

FilterNext ==
  \/ \E p \in FilterParamSpace : Call(p)
  \/ CountQuery
  \/ PageQuery
  \/ DetailFetch

FilterSpec == FilterInit /\ [][FilterNext]_vars

\* ------------------------------------------------------------------------
\* Reference predicates of the properties
\* ------------------------------------------------------------------------
EditorModeOn == IsSome(params.editorMode) /\ Val(params.editorMode) = TRUE

BlankQuery == ~IsSome(params.query) \/ Trim(Val(params.query)) = <<>>

StatusMatches(id) ==
  IF ~EditorModeOn THEN Words[id].status = "published"
  ELSE IF IsSome(params.status) /\ Val(params.status) # ""
       THEN Words[id].status = Val(params.status)
       ELSE TRUE

TextMatches(id) ==
  \/ BlankQuery
  \/ Includes(UnaccentLower(Words[id].lemma), UnaccentLower(Trim(Val(params.query))))

CategoryMatches(id) ==
  \/ ~IsSome(params.categories)
  \/ Val(params.categories) = <<>>
  \/ \E k \in 1..Len(Words[id].meanings) :
       Words[id].meanings[k].grammarCategory \in Range(Val(params.categories))

\* the distinct entries that satisfy every filter condition
MatchingEntries ==
  { id \in store : StatusMatches(id) /\ TextMatches(id) /\ CategoryMatches(id) }

TierRank(t) ==
  IF t = "exact" THEN 1
  ELSE IF t = "prefix" THEN 2
  ELSE IF t = "inline" THEN 3
  ELSE IF t = "partial" THEN 4
  ELSE 5

RECURSIVE Flatten(_)
Flatten(seqs) == IF seqs = <<>> THEN <<>> ELSE Head(seqs) \o Flatten(Tail(seqs))

\* the call has returned {results, total}
Returned == pc = "done"

\* ------------------------------------------------------------------------
\* Properties of searchWords (specification Spec)
\* ------------------------------------------------------------------------

\* C1: when editorMode is false or absent, every returned entry is published
\* and total counts exactly the published entries that pass the other
\* filters; an explicit status filter changes nothing.
C1_PublishedOnly ==
  (Returned /\ ~EditorModeOn) =>
    /\ \A i \in 1..Len(results) : Words[results[i].id].status = "published"
    /\ total = Cardinality({ id \in store : /\ Words[id].status = "published"
                                            /\ TextMatches(id)
                                            /\ CategoryMatches(id) })

\* a public search with an explicit status filter "imported" over a store
\* that holds an imported word next to a published one, both matching
C1_Witness ==
  /\ Returned
  /\ params.editorMode = Some(FALSE)
  /\ params.status = Some("imported")
  /\ {1, 3} \subseteq store
  /\ TextMatches(3) /\ CategoryMatches(3)
  /\ Len(results) > 0

\* C2: total is the number of distinct entries that satisfy all the filter
\* conditions, however many of an entry's meanings are joined or match.
C2_TotalCountsDistinctEntries ==
  (pc \in {"page", "detail", "done", "failed"}) => total = Cardinality(MatchingEntries)

\* one word with several meanings of the filtered category counts once
C2_Witness ==
  /\ Returned
  /\ store = {1}
  /\ params.categories = Some(<<"m">>)
  /\ Cardinality({ k \in 1..Len(Words[1].meanings) :
                     Words[1].meanings[k].grammarCategory = "m" }) >= 4
  /\ total = 1

\* C3: for a non-blank query every result classified exact has
\* normalize(lemma) = normalize(query), and along the result list the tiers
\* never go back from a lower-priority tier to a higher-priority one.
C3_ExactAndTierOrder ==
  (Returned /\ ~BlankQuery) =>
    /\ \A i \in 1..Len(results) :
         results[i].matchType = "exact" =>
           normalize(Words[results[i].id].lemma) = normalize(Val(params.query))
    /\ \A i, j \in 1..Len(results) :
         i < j => TierRank(results[i].matchType) <= TierRank(results[j].matchType)

\* a page with an exact match followed by a match of a lower tier
C3_Witness ==
  /\ Returned
  /\ ~BlankQuery
  /\ Len(results) = 2
  /\ results[1].matchType = "exact"
  /\ results[2].matchType = "prefix"

\* C4 (as stated): the result list is strictly ordered by tier, then lemma
\* under the base-sensitivity comparison, then identifier ascending.
C4_StrictTotalOrder ==
  Returned =>
    \A i, j \in 1..Len(results) :
      i < j =>
        \/ TierRank(results[i].matchType) < TierRank(results[j].matchType)
        \/ /\ results[i].matchType = results[j].matchType
           /\ localeCompare(Words[results[i].id].lemma, Words[results[j].id].lemma) < 0
        \/ /\ results[i].matchType = results[j].matchType
           /\ localeCompare(Words[results[i].id].lemma, Words[results[j].id].lemma) = 0
           /\ results[i].id < results[j].id

\* the result lists a single call returning every match can produce
FullResultLists ==
  { finalResults(params, ord, store) : ord \in StoreOrders(store, params) }

\* C5 (as stated): the concatenation of pages 1..N holds every matching
\* identifier exactly once and is the list a single call with
\* pageSize >= total returns.
C5_PagesConcatenateToFullList ==
  (/\ Returned
   /\ Len(pagesSoFar) = PageOf(params)
   /\ PageSizeOf(params) >= 1
   /\ PageOf(params) * PageSizeOf(params) >= total) =>
    LET concat == Flatten(pagesSoFar)
    IN /\ \A id \in MatchingEntries :
            Cardinality({ i \in 1..Len(concat) : concat[i].id = id }) = 1
       /\ Len(concat) = Cardinality(MatchingEntries)
       /\ concat \in FullResultLists

\* C6 (as stated): the page query is issued with page >= 1, pageSize >= 1
\* and the offset (page-1)*pageSize, never a negative offset or a
\* non-positive limit.
C6_OffsetAndLimitPositive ==
  pc = "page" =>
    /\ PageOf(params) >= 1
    /\ PageSizeOf(params) >= 1
    /\ offset = (PageOf(params) - 1) * PageSizeOf(params)
    /\ offset >= 0

\* C7: a page beyond the last one, with at least one matching entry, returns
\* an empty list and the correct non-zero total, and does not fail.
C7_PageBeyondLast ==
  (pc \in {"done", "failed"} /\ total > 0 /\ offset >= total) =>
    /\ pc = "done"
    /\ results = <<>>
    /\ total = Cardinality(MatchingEntries)

C7_Witness ==
  /\ Returned
  /\ total > 0
  /\ offset >= total
  /\ results = <<>>

\* C9 (as stated): with an absent, empty or whitespace-only query there is
\* no text condition and every returned entry is classified filter-only.
C9_BlankQueryFilterOnly ==
  (Returned /\ BlankQuery) =>
    /\ TextConditions(params) = <<>>
    /\ \A i \in 1..Len(results) : results[i].matchType = "filter"

\* ------------------------------------------------------------------------
\* Properties of the classifier (specification ClassifySpec)
\* ------------------------------------------------------------------------
\* nl[i..j] is a whitespace-delimited token of nl
IsToken(nl, i, j) ==
  /\ i <= j
  /\ \A k \in i..j : ~IsSpace(nl[k])
  /\ (i = 1 \/ IsSpace(nl[i - 1]))
  /\ (j = Len(nl) \/ IsSpace(nl[j + 1]))

\* some token starts with nq after its whole leading run of
\* non-alphanumeric characters is removed
InlineAfterRun(nl, nq) ==
  \E i, j \in 1..Len(nl) :
    /\ IsToken(nl, i, j)
    /\ \E k \in i..j :
         /\ \A m \in i..(k - 1) : ~IsAlnum(nl[m])
         /\ IsAlnum(nl[k])
         /\ StartsWith(SubSeq(nl, k, j), nq)

\* some token starts with nq after at most one leading non-alphanumeric
\* character is removed
InlineAfterOne(nl, nq) ==
  \E i, j \in 1..Len(nl) :
    /\ IsToken(nl, i, j)
    /\ StartsWith(IF IsAlnum(nl[i]) THEN SubSeq(nl, i, j) ELSE SubSeq(nl, i + 1, j), nq)

TierOf(q, l) ==
  LET nq == normalize(q)
      nl == normalize(l)
  IN IF nl = nq THEN "exact"
     ELSE IF StartsWith(nl, nq) THEN "prefix"
     ELSE IF InlineAfterRun(nl, nq) THEN "inline"
     ELSE IF Includes(nl, nq) THEN "partial"
     ELSE "filter"

Classified == ctier # "none"

\* C8 (as stated): for every non-blank query the classifier returns exact,
\* prefix, inline, partial or filter-only by the first test that holds on the
\* normalized query and lemma.
C8_ClassifierForNonBlank ==
  (Classified /\ Trim(cq) # <<>>) => ctier = TierOf(cq, cl)

\* C8 (amended): the same for every non-blank query whose normalized form is
\* not empty; a non-blank query that normalizes to the empty string is
\* classified filter-only.  The scenarios: casa/casa exact, casa/casapuerta
\* prefix, casa/"mi casa linda" inline, "cafe" with accent against cafe exact.
C8_ClassifierForNonEmptyNormalized ==
  (Classified /\ Trim(cq) # <<>>) =>
    /\ normalize(cq) # <<>> => ctier = TierOf(cq, cl)
    /\ normalize(cq) = <<>> => ctier = "filter"
    /\ (cq = casa /\ cl = casa) => ctier = "exact"
    /\ (cq = casa /\ cl = casapuerta) => ctier = "prefix"
    /\ (cq = casa /\ cl = miCasaLinda) => ctier = "inline"
    /\ (cq = cafeAccent /\ cl = cafe) => ctier = "exact"

C8_Witness ==
  /\ Classified
  /\ cq = cafeAccent
  /\ cl = cafe
  /\ ctier = "exact"

C11_NormalizeIdempotent ==
  IsSome(nonce) => ntwice = nonce

\* a value with an upper-case letter and a precomposed accent was normalized
\* to something else than itself
C11_Witness ==
  /\ IsSome(nonce)
  /\ nvalue = <<"A", "ntilde", "U0301">>
  /\ Val(nonce) = <<"a", "n">>
  /\ ntwice = nonce


\* ------------------------------------------------------------------------
\* C12: the assignee condition restricts the results to the entries whose
\* assignee is one of the filter values that are numbers; a value that is
\* not a number, one with a numeric prefix included, selects no entry
\* ------------------------------------------------------------------------
\* the value is a number as a whole: digits only, after an optional sign
IsNumber(s) ==
  LET t == Trim(s)
      body == IF t # <<>> /\ Head(t) \in {"-", "+"} THEN Tail(t) ELSE t
  IN body # <<>> /\ LeadingDigits(body) = body

NumericAssignees(p) ==
  { Val(ParseInt(Val(p.assignedTo)[i])) :
      i \in { j \in 1..Len(Val(p.assignedTo)) : IsNumber(Val(p.assignedTo)[j]) } }

C12_AssigneeNumericValuesOnly ==
  (Returned /\ AssigneeConditions(params) # <<>>) =>
     \A i \in 1..Len(results) :
        /\ IsSome(Words[results[i].id].assignedTo)
        /\ Val(Words[results[i].id].assignedTo) \in NumericAssignees(params)


\* ------------------------------------------------------------------------
\* C13: in editor mode a non-empty status filter restricts the results to
\* the entries of exactly that status; an absent or empty status filter
\* restricts nothing, entries of every status are returned
\* ------------------------------------------------------------------------
AssigneeMatches(id) ==
  \/ AssigneeConditions(params) = <<>>
  \/ /\ IsSome(Words[id].assignedTo)
     /\ Val(Words[id].assignedTo) \in Range(assignedToIds(Val(params.assignedTo)))

StatusFilterGiven == IsSome(params.status) /\ Val(params.status) # ""

ResultIds == { results[i].id : i \in 1..Len(results) }

C13_EditorStatusFilter ==
  (Returned /\ EditorModeOn /\ BlankQuery) =>
     LET others == { id \in store : AssigneeMatches(id) /\ CategoryMatches(id) }
         expected == IF StatusFilterGiven
                     THEN { id \in others : Words[id].status = Val(params.status) }
                     ELSE others
     IN /\ total = Cardinality(expected)
        /\ ResultIds \subseteq expected
        /\ PageSizeOf(params) >= Cardinality(expected) => ResultIds = expected
        /\ StatusFilterGiven =>
             \A i \in 1..Len(results) : Words[results[i].id].status = Val(params.status)

\* editor mode with the empty string as status filter returned an imported
\* and a redacted entry
C13_Witness ==
  /\ Returned
  /\ EditorModeOn
  /\ params.status = Some("")
  /\ \E i, j \in 1..Len(results) :
       /\ Words[results[i].id].status = "imported"
       /\ Words[results[j].id].status = "redacted"


\* ------------------------------------------------------------------------
\* C14: an entry that the page query selected and that has no full record
\* in the detail fetch (deleted in between) is left out of the results;
\* the remaining entries are returned, in order, without an error
\* ------------------------------------------------------------------------
RowIds == { rows[i] : i \in 1..Len(rows) }

\* the list the call returns when every row has its full record
ResultsWithEveryRow == finalResults(params, rows, RowIds)

C14_DeletedEntryDropped ==
  /\ Returned =>
       /\ ResultIds = RowIds \cap store
       /\ Len(results) = Cardinality(RowIds \cap store)
       /\ results = SelectSeq(ResultsWithEveryRow, LAMBDA r : r.id \in store)
  /\ pc = "failed" => storeError

\* two rows were selected, one of them was deleted before the detail fetch,
\* the other one is returned
C14_Witness ==
  /\ Returned
  /\ ~storeError
  /\ Len(rows) = 2
  /\ Len(results) = 1
  /\ results[1].id \in store
  /\ \E i \in 1..2 : rows[i] \notin store

\* ------------------------------------------------------------------------
\* C15: when a store query of the call is rejected the call fails with
\* that one failure: no {results, total} is returned and no store query is
\* issued again or after it
\* ------------------------------------------------------------------------
C15_StoreFailureFailsCall ==
  /\ storeError =>
       /\ pc = "failed"
       /\ results = <<>>
  /\ \A i, j \in 1..Len(issued) : issued[i] = issued[j] => i = j
  /\ SubSeq(<<"count", "page", "detail">>, 1, Len(issued)) = issued

\* the page query was rejected after the count query had answered
C15_Witness ==
  /\ pc = "failed"
  /\ storeError
  /\ issued = <<"count", "page">>
  /\ total > 0
  /\ offset >= 0


\* ------------------------------------------------------------------------
\* C16: two calls with the same input against an unchanged store return
\* the same results (same entries, same order, same match labels) and the
\* same total, for every order in which the store returns tied rows
\* ------------------------------------------------------------------------
C16_RepeatedCallSameOutput ==
  (Returned /\ IsSome(firstOutput)) =>
     /\ Val(firstOutput).results = results
     /\ Val(firstOutput).total = total


\* ------------------------------------------------------------------------
\* C17: getAllowedRoles is [lexicographer, admin, superadmin] for
\* superadmin, [lexicographer, admin] for admin and [] for any other role;
\* validateRoleAssignment(..).valid and canManageUser are true exactly when
\* the target is in getAllowedRoles(current): an admin never assigns or
\* manages superadmin, any other role assigns and manages nobody
\* ------------------------------------------------------------------------
C17_RoleMatrix ==
  IsSome(rallowed) =>
    /\ rcurrent = "superadmin" => Val(rallowed) = <<"lexicographer", "admin", "superadmin">>
    /\ rcurrent = "admin" => Val(rallowed) = <<"lexicographer", "admin">>
    /\ rcurrent \notin {"superadmin", "admin"} => Val(rallowed) = <<>>
    /\ Val(rvalid) = (rtarget \in Range(Val(rallowed)))
    /\ Val(rcan) = (rtarget \in Range(Val(rallowed)))
    /\ (rcurrent = "admin" /\ rtarget = "superadmin") => (~Val(rvalid) /\ ~Val(rcan))
    /\ rcurrent \notin {"superadmin", "admin"} => (~Val(rvalid) /\ ~Val(rcan))

\* the utilities were applied to an admin and the target superadmin
C17_Witness ==
  /\ IsSome(rallowed)
  /\ rcurrent = "admin"
  /\ rtarget = "superadmin"
  /\ Val(rvalid) = FALSE
  /\ Val(rcan) = FALSE


\* ------------------------------------------------------------------------
\* C18: no call of updateUserAction, deleteUserAction, PUT or DELETE made
\* by a current user whose role is admin changes the username, email or
\* role of a user whose role is superadmin, or deletes that user
\* ------------------------------------------------------------------------
ManagementOps == {"updateUserAction", "deleteUserAction", "PUT", "DELETE"}

C18_AdminNeverChangesSuperadmin ==
  [][ (call'.op \in ManagementOps /\ IsSome(call'.cur) /\ Val(call'.cur).role = "admin")
        => \A id \in DOMAIN users :
              users[id].role = "superadmin" =>
                 (id \in DOMAIN users' /\ users'[id] = users[id]) ]_vars


\* ------------------------------------------------------------------------
\* C19: deleteUserAction and DELETE /api/users/[id] test, in this order:
\* the caller is an authenticated admin or superadmin, the target id is not
\* the caller's id, the target exists, canManageUser(caller role, target
\* role).  The first test that fails decides the error and deleteUser is
\* not called; when all pass deleteUser is called once with the target id.
\* Nobody deletes their own account.
\* ------------------------------------------------------------------------
DeleteOps == {"deleteUserAction", "DELETE"}

C19_DeleteGuardOrder ==
  (call.op \in DeleteOps /\ IsSome(call.userId)) =>
    LET us == call.before
        target == Val(call.userId)
        authed == IsSome(call.cur) /\ Val(call.cur).role \in {"admin", "superadmin"}
        self == Val(call.cur).id = target
        exists == target \in DOMAIN us
        can == us[target].role \in Range(getAllowedRoles(Val(call.cur).role))
        notCalled == call.dbCalls = <<>> /\ users = us
        guardErrors == { "Cannot delete your own account", "User not found",
                         "No tienes permisos para eliminar este usuario" }
    IN /\ ~authed => (~call.result.ok /\ call.result.error \notin guardErrors /\ notCalled)
       /\ (authed /\ self) =>
            (call.result.error = "Cannot delete your own account" /\ notCalled)
       /\ (authed /\ ~self /\ ~exists) =>
            (call.result.error = "User not found" /\ notCalled)
       /\ (authed /\ ~self /\ exists /\ ~can) =>
            (call.result.error = "No tienes permisos para eliminar este usuario" /\ notCalled)
       /\ (authed /\ ~self /\ exists /\ can) =>
            /\ call.result.ok
            /\ call.dbCalls = << DbCall("deleteUser", target, NoData) >>
            /\ DOMAIN users = DOMAIN us \ {target}
            /\ \A id \in DOMAIN users : users[id] = us[id]
       /\ IsSome(call.cur) => Val(call.cur).id \in DOMAIN users

\* an admin deleted a lexicographer through the server action
C19_Witness ==
  /\ call.op = "deleteUserAction"
  /\ call.cur = Some([id |-> 2, role |-> "admin"])
  /\ call.userId = Some(3)
  /\ call.result.ok
  /\ call.dbCalls = << DbCall("deleteUser", 3, NoData) >>
  /\ 3 \in DOMAIN call.before
  /\ 3 \notin DOMAIN users

\* ------------------------------------------------------------------------
\* C20: createUserAction fails without calling createUser when one of
\* these tests fails, the first failure deciding the error: no session;
\* role not admin or superadmin; role assignment not valid for the caller;
\* trimmed username shorter than 3; email without '@'; username exists;
\* email exists.  When all pass createUser is called once with the trimmed
\* username and the trimmed lower-cased email.
\* ------------------------------------------------------------------------
C20_CreateCheckOrder ==
  call.op = "createUserAction" =>
    LET us == call.before
        username == Val(call.username)
        email == Val(call.email)
        role == Val(call.role)
        noSession == ~IsSome(call.cur)
        notAdmin == Val(call.cur).role \notin {"admin", "superadmin"}
        invalidRole == role \notin Range(getAllowedRoles(Val(call.cur).role))
        shortName == Len(Trim(username)) < 3
        noAt == "@" \notin Range(email)
        nameTaken == \E id \in DOMAIN us : Lower(us[id].username) = Lower(Trim(username))
        mailTaken == \E id \in DOMAIN us : Lower(us[id].email) = Lower(Trim(email))
        expected ==
          IF noSession THEN "Unauthorized: No session found"
          ELSE IF notAdmin THEN "Unauthorized: Admin or superadmin role required"
          ELSE IF invalidRole THEN "not authorized to assign role"
          ELSE IF shortName THEN "Username must be at least 3 characters long"
          ELSE IF noAt THEN "Invalid email address"
          ELSE IF nameTaken THEN "Username already exists"
          ELSE IF mailTaken THEN "Email already exists"
          ELSE ""
    IN IF expected # ""
       THEN /\ ~call.result.ok
            /\ call.result.error = expected
            /\ call.dbCalls = <<>>
            /\ users = us
       ELSE /\ call.result.ok
            /\ Len(call.dbCalls) = 1
            /\ call.dbCalls[1].fn = "createUser"
            /\ call.dbCalls[1].data =
                 [username |-> Some(Trim(username)), email |-> Some(Lower(Trim(email))),
                  role |-> Some(role)]
            /\ users[call.dbCalls[1].id].username = Trim(username)
            /\ users[call.dbCalls[1].id].email = Lower(Trim(email))

\* a user was created from a username and an email with surrounding blanks
\* and upper-case letters
C20_Witness ==
  /\ call.op = "createUserAction"
  /\ call.result.ok
  /\ call.username = Some(<<" ","n","o","e"," ">>)
  /\ call.email = Some(<<" ","N","@","X"," ">>)
  /\ \E id \in DOMAIN users \ DOMAIN call.before :
       /\ users[id].username = noe
       /\ users[id].email = <<"n","@","x">>


\* ------------------------------------------------------------------------
\* C21: once createUser has succeeded inside createUserAction the action
\* returns success: true even when the reset token cannot be created or the
\* welcome mail cannot be sent; the created user stays in the table
\* ------------------------------------------------------------------------
CreatedUser ==
  /\ call.op = "createUserAction"
  /\ call.dbCalls # <<>>
  /\ call.dbCalls[1].fn = "createUser"

C21_CreatedUserSurvivesMailFailure ==
  CreatedUser =>
    LET newId == call.dbCalls[1].id
    IN /\ call.result.ok
       /\ call.result.error = ""
       /\ newId \in DOMAIN users
       /\ newId \notin DOMAIN call.before
       /\ users[newId].username = Val(call.dbCalls[1].data.username)
       /\ \A id \in DOMAIN call.before : users[id] = call.before[id]

\* a user was created, the token insert failed and no mail was sent
C21_Witness ==
  /\ CreatedUser
  /\ call.result.ok
  /\ call.dbCalls[1].id \in DOMAIN users
  /\ call.dbCalls[1].id \notin tokens
  /\ ~call.mailSent


\* ------------------------------------------------------------------------
\* C22: a request to a report endpoint without a session is answered 401
\* 'Unauthorized', one of an authenticated non-admin 403, never 500; no
\* words are fetched, no PDF is generated and no mail is sent
\* ------------------------------------------------------------------------
ReportOps == {"reportPOST", "reportGET", "exportGET"}

C22_ReportUnauthorized ==
  call.op \in ReportOps =>
    /\ ~IsSome(call.cur) =>
         /\ call.result.status = 401
         /\ call.result.error = "Unauthorized"
         /\ call.dbCalls = <<>>
         /\ ~call.mailSent
    /\ (IsSome(call.cur) /\ ~IsAdminRole(Val(call.cur).role)) =>
         /\ call.result.status = 403
         /\ call.dbCalls = <<>>
         /\ ~call.mailSent


\* ------------------------------------------------------------------------
\* C23: for every query that is not blank after trimming and every lemma
\* that satisfies the store's text condition built from the trimmed query
\* (prefix, inline or contains pattern) the classifier assigns exact,
\* prefix, inline or partial, never filter; also when the raw query has
\* leading or trailing whitespace
\* ------------------------------------------------------------------------
\* the text condition of the store on a lemma, for the raw query
StoreTextCondition(rawQuery, lemma) ==
  LET p == [IdleParams EXCEPT !.query = Some(rawQuery)]
      conds == TextConditions(p)
  IN /\ conds # <<>>
     /\ EvalCondition(conds[1], [lemma |-> lemma], None)

C23_SelectedLemmaIsClassified ==
  (ctier # "none" /\ Trim(cq) # <<>> /\ StoreTextCondition(cq, cl)) =>
     ctier \in {"exact", "prefix", "inline", "partial"}

\* ------------------------------------------------------------------------
\* Facet filters
\* ------------------------------------------------------------------------
\* a filter set that is present and not empty
FacetGiven(f) == IsSome(params[f]) /\ Val(params[f]) # <<>>

MeaningFacets == {"origins", "dictionaries", "categories"} \cup Range(MEANING_MARKER_KEYS)

GivenMeaningFacets == { f \in MeaningFacets : FacetGiven(f) }

LetterOk(id) ==
  ~FacetGiven("letters")
    \/ \E v \in Range(Val(params.letters)) : Words[id].letter = Lower(v)

AssigneeOk(id) ==
  ~FacetGiven("assignedTo")
    \/ \E v \in Range(Val(params.assignedTo)) : ParseInt(v) = Words[id].assignedTo

\* the meaning m satisfies the facet f: one of the values of f matches
MeaningFacetOk(m, f) ==
  IF f = "origins"
  THEN IsSome(m.origin)
         /\ \E v \in Range(Val(params.origins)) : Includes(Lower(Val(m.origin)), Lower(v))
  ELSE IF f = "dictionaries"
  THEN \E v \in Range(Val(params.dictionaries)) : m.dictionary = Some(v)
  ELSE IF f = "categories"
  THEN m.grammarCategory \in Range(Val(params.categories))
  ELSE \E v \in Range(Val(params[f])) : m[f] = Some(v)

\* the entries an OR within each given facet and an AND across the facets select
FacetMatching ==
  { id \in store :
      /\ Words[id].status = "published"
      /\ LetterOk(id)
      /\ AssigneeOk(id)
      /\ \/ GivenMeaningFacets = {}
         \/ \E k \in 1..Len(Words[id].meanings) :
              \A f \in GivenMeaningFacets : MeaningFacetOk(Words[id].meanings[k], f) }

OnlyLettersGiven ==
  /\ FacetGiven("letters")
  /\ GivenMeaningFacets = {}
  /\ ~FacetGiven("assignedTo")

\* C24: every facet filter (letters, origins, dictionaries, categories, each
\* marker kind, assignee ids) contributes the OR over its values, only when
\* its value set is not empty, and the facets are combined with AND: a
\* finished public call without a text query returns exactly the published
\* entries that satisfy every given facet, and counts them. Letters are
\* lower-cased: letters = ['a'] (or ['A']) on ala, abuelo, besa returns
\* abuelo then ala, both filter-only.
C24_FacetsOrWithinAndAcross ==
  (pc = "done" /\ params \in FilterParamSpace) =>
    /\ ResultIds = FacetMatching
    /\ Len(results) = Cardinality(FacetMatching)
    /\ total = Cardinality(FacetMatching)
    /\ (store = {7, 8, 9} /\ OnlyLettersGiven
          /\ \A v \in Range(Val(params.letters)) : Lower(v) = <<"a">>)
         => /\ Len(results) = 2
            /\ results[1].id = 8
            /\ results[2].id = 7
            /\ \A i \in 1..2 : results[i].matchType = "filter"

\* a call with an upper-case letter, an empty marker set and two other
\* facets given has returned abuelo and ala
C24_Witness ==
  /\ pc = "done"
  /\ store = {7, 8, 9}
  /\ params.letters = Some(<< <<"A">> >>)
  /\ params.styleMarkers = Some(<<>>)
  /\ params.categories = Some(<<"f", "m">>)
  /\ params.dictionaries = Some(<<"duech">>)
  /\ Len(results) = 2
  /\ results[1].id = 8

\* ------------------------------------------------------------------------
\* Page contents
\* ------------------------------------------------------------------------
\* the coarse priority of an entry, from the trimmed query text
CoarsePriority(id) ==
  IF BlankQuery THEN 4
  ELSE LET q == UnaccentLower(Trim(Val(params.query)))
           l == UnaccentLower(Words[id].lemma)
       IN IF l = q THEN 0
          ELSE IF StartsWith(l, q) THEN 1
          ELSE IF Includes(l, <<" ">> \o q) THEN 2
          ELSE IF Includes(l, q) THEN 3
          ELSE 4

\* the distinct matching entries in an order sorted by coarse priority, then
\* by normalized lemma ascending
SortedMatching ==
  LET n == Cardinality(MatchingEntries)
  IN { ord \in [1..n -> MatchingEntries] :
         /\ \A i, j \in 1..n : i # j => ord[i] # ord[j]
         /\ \A i, j \in 1..n : i < j =>
              \/ CoarsePriority(ord[i]) < CoarsePriority(ord[j])
              \/ /\ CoarsePriority(ord[i]) = CoarsePriority(ord[j])
                 /\ CompareText(UnaccentLower(Words[ord[i]].lemma),
                                UnaccentLower(Words[ord[j]].lemma)) <= 0 }

\* positions (p-1)*pageSize .. p*pageSize-1, counted from 0, of ord
PagePositions(ord) ==
  { k \in 1..Len(ord) :
      /\ (PageOf(params) - 1) * PageSizeOf(params) <= k - 1
      /\ k - 1 <= PageOf(params) * PageSizeOf(params) - 1 }

\* C25: the entries returned for page p are exactly the entries at positions
\* (p-1)*pageSize .. p*pageSize-1 of the distinct matching entries sorted by
\* the coarse store-level priority (0 equal, 1 prefix, 2 inline, 3 contains,
\* 4 otherwise) and then by normalized lemma ascending; without a text query
\* every entry has priority 4.
C25_PageIsSliceOfSortedMatches ==
  pc = "done" =>
    /\ \E ord \in SortedMatching :
         /\ ResultIds = { ord[k] : k \in PagePositions(ord) }
         /\ Len(results) = Cardinality(PagePositions(ord))
    /\ BlankQuery => \A id \in store : matchPriority(params, Words[id]) = 4

\* page 2 of size 1 for the query casa holds the entry of the lower priority
C25_Witness ==
  /\ pc = "done"
  /\ params.query = Some(casa)
  /\ PageOf(params) = 2
  /\ PageSizeOf(params) = 1
  /\ store = {1, 5}
  /\ ResultIds = {5}
  /\ CoarsePriority(1) = 0
  /\ CoarsePriority(5) = 3

\* ------------------------------------------------------------------------
\* Meaning-scoped facets
\* ------------------------------------------------------------------------
\* some single meaning of the entry satisfies every given meaning-scoped facet
OneMeaningSatisfiesAll(id) ==
  \E k \in 1..Len(Words[id].meanings) :
    \A f \in GivenMeaningFacets : MeaningFacetOk(Words[id].meanings[k], f)

\* every given meaning-scoped facet is satisfied by some meaning of the entry
EachFacetBySomeMeaning(id) ==
  \A f \in GivenMeaningFacets :
    \E k \in 1..Len(Words[id].meanings) : MeaningFacetOk(Words[id].meanings[k], f)

\* C29: when meaning-scoped facets (categories, origins, dictionaries, marker
\* kinds) are given, an entry that passes the entry-level filters is in the
\* results and in the total if and only if one single meaning of it
\* satisfies all of them at once; an entry whose facets are satisfied only by
\* different meanings is excluded, and so is an entry without meanings.
C29_FacetsOnOneMeaning ==
  (pc = "done" /\ params \in FilterParamSpace /\ GivenMeaningFacets # {}) =>
    /\ \A id \in store :
         (Words[id].status = "published" /\ LetterOk(id) /\ AssigneeOk(id)) =>
           (id \in ResultIds <=> OneMeaningSatisfiesAll(id))
    /\ \A id \in ResultIds : Words[id].meanings # <<>>
    /\ total = Cardinality(ResultIds)

\* categories ['m'] and origins ['la'] are met by two different meanings of
\* abuelo, which is left out, while ala is not asked for and besa has none
C29_Witness ==
  /\ pc = "done"
  /\ store = {8, 9}
  /\ params.categories = Some(<<"m">>)
  /\ params.origins = Some(<< <<"l","a">> >>)
  /\ Cardinality(GivenMeaningFacets) = 2
  /\ EachFacetBySomeMeaning(8)
  /\ ~OneMeaningSatisfiesAll(8)
  /\ results = <<>>
  /\ total = 0

\* ------------------------------------------------------------------------
\* Password reset
\* ------------------------------------------------------------------------
ResetCalled == call.op = "resetUserPasswordAction"

SelfReset == ResetCalled /\ IsSome(call.cur) /\ Some(Val(call.cur).id) = call.userId

\* C26: a reset whose target is the current user, who is not a superadmin,
\* returns success: false with 'No puedes restablecer tu propia contraseña
\* desde aquí', creates no reset token and sends no email.
C26_NoSelfResetBelowSuperadmin ==
  (SelfReset /\ Val(call.cur).role # "superadmin") =>
    /\ ~call.result.ok
    /\ call.result.error = "No puedes restablecer tu propia contraseña desde aquí"
    /\ tokens = {}
    /\ ~call.mailSent

\* C28: a reset that returns success: false has created no reset token: the
\* set of tokens, empty before the call, is still empty.
C28_FailedResetLeavesNoToken ==
  (ResetCalled /\ ~call.result.ok) => tokens = {}

\* ------------------------------------------------------------------------
\* Users table across calls
\* ------------------------------------------------------------------------
\* no two rows of the table share a username, compared without case, or an
\* email
UniqueUsers(us) ==
  \A a, b \in DOMAIN us :
    a # b => /\ Lower(us[a].username) # Lower(us[b].username)
             /\ us[a].email # us[b].email

\* C27: after any sequence of createUserAction, updateUserAction and PUT
\* calls that starts from a table with unique usernames and emails, no two
\* users share a username (compared without case) or an email.
C27_UsernamesAndEmailsUnique == UniqueUsers(users)

Superadmins(us) == { id \in DOMAIN us : us[id].role = "superadmin" }

CallerBelowSuperadmin == ~IsSome(call.cur) \/ Val(call.cur).role # "superadmin"

\* C30: a createUserAction, updateUserAction or PUT call whose current user
\* is an admin or lower (or absent) adds no member to the set of users whose
\* role is superadmin, whatever calls came before it.
C30_NoNewSuperadminBelowSuperadmin ==
  (callsMade > 0 /\ CallerBelowSuperadmin) =>
    Superadmins(users) \subseteq Superadmins(call.before)

\* an admin has asked for the role superadmin, in a second call, and was
\* turned down
C30_Witness ==
  /\ callsMade = 2
  /\ IsSome(call.cur)
  /\ Val(call.cur).role = "admin"
  /\ call.role = Some("superadmin")
  /\ ~call.result.ok
  /\ users = call.before

====
